---- MODULE Spec2Model ----
(***************************************************************************)
(* A model of CanvasScraper (src/CanvasScraper.py): the filename           *)
(* sanitizer, the link classifier, the download fallback chain with its    *)
(* skip/placeholder ledger, and the course discovery chain.                *)
(*                                                                         *)
(* Python strings are modelled as sequences of one-character strings, so   *)
(* that "in", endswith, lower, replace and strip are computed character by *)
(* character, as the interpreter computes them.                            *)
(***************************************************************************)
EXTENDS Integers, Sequences, FiniteSets, TLC

(***************************************************************************)
(* Python str primitives                                                   *)
(***************************************************************************)

\* p occurs in s starting at index i
MatchesAt(s, p, i) ==
    /\ i >= 1
    /\ i + Len(p) - 1 <= Len(s)
    /\ \A k \in 1..Len(p) : s[i + k - 1] = p[k]

\* Python: p in s
Contains(s, p) == \E i \in 1..(Len(s) + 1) : MatchesAt(s, p, i)

\* Python: s.endswith(p)
EndsWith(s, p) == Len(p) <= Len(s) /\ MatchesAt(s, p, Len(s) - Len(p) + 1)

UpperCase == <<"A", "B", "C", "D", "E", "F", "G", "H", "I", "J", "K", "L", "M",
               "N", "O", "P", "Q", "R", "S", "T", "U", "V", "W", "X", "Y", "Z">>

LowerCase == <<"a", "b", "c", "d", "e", "f", "g", "h", "i", "j", "k", "l", "m",
               "n", "o", "p", "q", "r", "s", "t", "u", "v", "w", "x", "y", "z">>

LowerChar(c) ==
    IF \E i \in 1..Len(UpperCase) : UpperCase[i] = c
    THEN LowerCase[CHOOSE i \in 1..Len(UpperCase) : UpperCase[i] = c]
    ELSE c

\* a lower() that leaves the letters as they are
KeepsCase(s) == s

\* Python: s.lower()
Lower(s) == [i \in 1..Len(s) |-> LowerChar(s[i])]

\* Python: s.replace(c, r) for one-character c and r
Replace(s, c, r) == [i \in 1..Len(s) |-> IF s[i] = c THEN r ELSE s[i]]

\* a strip that trims nothing
StripNothing(s, chars) == s

\* Python: s.strip(chars)
Strip(s, chars) ==
    LET keep == {i \in 1..Len(s) : s[i] \notin chars}
    IN  IF keep = {} THEN <<>>
        ELSE LET lo == CHOOSE i \in keep : \A j \in keep : i <= j
                 hi == CHOOSE i \in keep : \A j \in keep : j <= i
             IN  SubSeq(s, lo, hi)

(***************************************************************************)
(* CanvasScraper._sanitize_filename                                        *)
(***************************************************************************)

invalid_chars == <<"<", ">", ":", "\"", "/", "\\", "|", "?", "*">>

\* for char in chars[n..]: filename = filename.replace(char, '_')
RECURSIVE ReplaceEach(_, _, _)
ReplaceEach(filename, chars, n) ==
    IF n > Len(chars) THEN filename
    ELSE ReplaceEach(Replace(filename, chars[n], "_"), chars, n + 1)

Unnamed == <<"u", "n", "n", "a", "m", "e", "d">>

\* the sanitizer with '*' missing from its list of invalid characters
sanitize_filename_without_star(filename) ==
    LET replaced == ReplaceEach(filename, SubSeq(invalid_chars, 1, Len(invalid_chars) - 1), 1)
        stripped == Strip(replaced, {".", " "})
    IN  IF stripped = <<>> THEN Unnamed ELSE stripped

_sanitize_filename(filename) ==
    LET replaced == ReplaceEach(filename, invalid_chars, 1)
        stripped == Strip(replaced, {".", " "})
    IN  IF stripped = <<>> THEN Unnamed ELSE stripped

(***************************************************************************)
(* CanvasScraper._is_downloadable_link                                     *)
(***************************************************************************)

file_extensions ==
    << <<".", "p", "d", "f">>, <<".", "d", "o", "c">>, <<".", "d", "o", "c", "x">>, <<".", "p", "p", "t">>, <<".", "p", "p", "t", "x">>, <<".", "x", "l", "s">>, <<".", "x", "l", "s", "x">>,
       <<".", "t", "x", "t">>, <<".", "z", "i", "p">>, <<".", "j", "p", "g">>, <<".", "j", "p", "e", "g">>, <<".", "p", "n", "g">>, <<".", "g", "i", "f">>, <<".", "m", "p", "3">>,
       <<".", "m", "p", "4">>, <<".", "m", "o", "v">>, <<".", "a", "v", "i">> >>

_is_downloadable_link(url) ==
    IF url = <<>> THEN FALSE
    ELSE IF /\ Contains(url, <<"/", "f", "i", "l", "e", "s", "/">>)
            /\ \/ Contains(url, <<"/", "d", "o", "w", "n", "l", "o", "a", "d">>)
               \/ Contains(url, <<"?", "d", "o", "w", "n", "l", "o", "a", "d", "=", "1">>)
               \/ Contains(url, <<"?", "d", "o", "w", "n", "l", "o", "a", "d", "_", "f", "r", "d", "=", "1">>)
         THEN TRUE
         ELSE \E n \in 1..Len(file_extensions) :
                  \/ EndsWith(Lower(url), file_extensions[n])
                  \/ Contains(Lower(url), file_extensions[n] \o <<"?">>)

(***************************************************************************)
(* CanvasScraper._download_file and the file loop of _process_folder       *)
(***************************************************************************)

\* response.status_code == 200
HTTP_OK == 200

\* status codes the transfer session may answer with
Statuses == {200, 204, 404}

\* number of file rows in the folder listing
NumItems == 2

\* largest response body, in chunks
MaxBody == 1

Items == 1..NumItems

\* display names a file row may carry; the first two sanitize to the same name
ItemNames == << <<"a", "?">>, <<"a", "*">>, <<"b">>, <<"c", ".">> >>

\* the listings: row i shows ItemNames[i], or the first two rows collide
Listings ==
    { [i \in Items |-> ItemNames[i]],
      [i \in Items |-> ItemNames[i + 1]] }

\* os.path.join(current_dir, safe_file_name), current_dir being fixed
LocalPath(name) == _sanitize_filename(name)

LocalPaths == {LocalPath(ItemNames[n]) : n \in 1..Len(ItemNames)}

\* a file on disk: absent, or its size and the item whose body it holds
\* (src 0: content that was there before the first run)
Absent == [size |-> -1, src |-> 0]

EmptyFile == [size |-> 0, src |-> 0]

OldFile == [size |-> 1, src |-> 0]

Exists(file) == file.size >= 0

VARIABLES
    arg,            \* the argument of the pure function under test
    ret,            \* its return value
    op,             \* "none" before the call, then the name of what was called
    skip_existing,  \* self.skip_existing
    names,          \* the file rows of the listing: row -> display name
    unloads,        \* row -> whether navigating to its file_url replaces the page
    fs,             \* local path -> file
    run,            \* "first" or "second" run of the scrape
    idx,            \* position of the file loop in the listing
    stale,          \* the listing's element handles belong to a page since replaced
    pc,             \* where control is
    cur,            \* the running call's arguments: row and file_path
    button,         \* which download control the waits found
    download_url,   \* what the control's href holds
    status,         \* response.status_code of the last transfer, 0 before any
    saved,          \* how _save_file_with_progress ended in this call
    result,         \* how the call ended: "true", "false", "raised", "none" while running
    trace,          \* the strategies this call has tried, in order
    navs,           \* driver.get calls of this call
    reqs,           \* session.get calls of this call
    writes,         \* times this call opened file_path for writing
    faults,         \* the failures this call has met
    pre,            \* the file at file_path when the call began
    called1,        \* rows whose _download_file call ran in the first run
    fsEnd1,         \* the local files as the first run left them
    nav2,           \* rows the second run navigated to
    req2,           \* rows the second run issued a transfer for
    course_cards,   \* the dashboard cards of the courses page
    course_rows,    \* the rows of the "All Courses" table, header first
    course_links,   \* the course anchors of the generic courses page
    location,       \* self.driver.current_url, as a path
    gc_pc,          \* where get_courses is
    calls,          \* the strategies get_courses has invoked, in order
    courses,        \* the local variable courses of get_courses
    found,          \* strategy -> the list it returned
    gc_failed,      \* the steps of get_courses in which something raised
    returned,       \* the list get_courses returned
    gc_result,      \* "list" once get_courses returned, "raised" had it raised
    tree,           \* the remote folder tree: its name and folder -> listing
    page,           \* the pages the browser has loaded so far (the current one's number)
    stack,          \* the running _process_folder calls, innermost last
    log,            \* what the traversal has done, in order
    timeouts,       \* waits for the listing marker that timed out
    run_pc,         \* where run is
    discovered,     \* how many courses get_courses returned
    course,         \* position of the loop of run in the course list
    scan,           \* which scan of process_course is next
    outcomes,       \* how the scans of the course in hand have ended so far
    processed,      \* the courses process_course was called for, in order
    run_result,     \* what run returned
    browser,        \* "none" until login creates it, "open" until driver.quit()
    course_log,     \* the scans process_course ran and the warnings it logged
    dd_pc,          \* which scan of the one course looks at the remote file next
    dd_skip,        \* skip_existing of the run over the one course
    dd_name,        \* display name of the remote file
    linked_from,    \* the scans whose pages link to the remote file
    disk,           \* local path -> file, beneath the course directory
    transfers       \* the transfers of the remote file made so far, in order

pureVars == <<arg, ret, op>>

fixtureVars == <<skip_existing, names, unloads>>

loopVars == <<run, idx>>

callVars == <<cur, button, download_url, status, saved, result, trace, navs, reqs,
              writes, faults, pre>>

histVars == <<called1, fsEnd1, nav2, req2>>

dlVars == <<fixtureVars, fs, loopVars, stale, pc, callVars, histVars>>

gcVars == <<course_cards, course_rows, course_links, location, gc_pc, calls, courses,
           found, gc_failed, returned, gc_result>>

treeVars == <<tree, page, stack, log, timeouts>>

runVars == <<run_pc, discovered, course, scan, outcomes, processed, run_result, browser,
             course_log>>

dedupVars == <<dd_pc, dd_skip, dd_name, linked_from, disk, transfers>>

vars == <<pureVars, dlVars, gcVars, treeVars, runVars, dedupVars>>

\* what the download chain leaves alone
outsideDownload == <<pureVars, gcVars, treeVars, runVars, dedupVars>>

\* what a pure function leaves alone
outsidePure == <<dlVars, gcVars, treeVars, runVars, dedupVars>>

\* what get_courses leaves alone
outsideCourses == <<pureVars, dlVars, treeVars, runVars, dedupVars>>

\* what _process_folder leaves alone
outsideFolders == <<pureVars, dlVars, gcVars, runVars, dedupVars>>

\* what run leaves alone
outsideRun == <<pureVars, dlVars, gcVars, treeVars, dedupVars>>

\* what the scans of one remote file leave alone
outsideDedup == <<pureVars, dlVars, gcVars, treeVars, runVars>>

Strategies == {"dashboard", "table", "list"}

\* the course discovery variables while something else is under test
CoursesIdle ==
    /\ course_cards = <<>>
    /\ course_rows = <<>>
    /\ course_links = <<>>
    /\ location = "/"
    /\ gc_pc = "idle"
    /\ calls = <<>>
    /\ courses = <<>>
    /\ found = [s \in Strategies |-> <<>>]
    /\ gc_failed = {}
    /\ returned = <<>>
    /\ gc_result = "none"

\* the download variables while a pure function is under test
DownloadIdle ==
    /\ skip_existing = FALSE
    /\ names = <<>>
    /\ unloads = <<>>
    /\ fs = <<>>
    /\ run = "none"
    /\ idx = 0
    /\ stale = FALSE
    /\ pc = "idle"
    /\ cur = [item |-> 0, file_path |-> <<>>]
    /\ button = "none"
    /\ download_url = "none"
    /\ status = 0
    /\ saved = "none"
    /\ result = "none"
    /\ trace = <<>>
    /\ navs = 0
    /\ reqs = 0
    /\ writes = 0
    /\ faults = {}
    /\ pre = Absent
    /\ called1 = {}
    /\ fsEnd1 = <<>>
    /\ nav2 = {}
    /\ req2 = {}

\* the folder traversal variables while something else is under test
TreeIdle ==
    /\ tree = <<>>
    /\ page = 0
    /\ stack = <<>>
    /\ log = <<>>
    /\ timeouts = 0

\* the variables of the one-file scans while something else is under test
DedupIdle ==
    /\ dd_pc = "idle"
    /\ dd_skip = FALSE
    /\ dd_name = <<>>
    /\ linked_from = {}
    /\ disk = <<>>
    /\ transfers = <<>>

\* the variables of run while something else is under test
RunIdle ==
    /\ run_pc = "idle"
    /\ discovered = 0
    /\ course = 0
    /\ scan = 0
    /\ outcomes = <<>>
    /\ processed = <<>>
    /\ run_result = "none"
    /\ browser = "idle"
    /\ course_log = <<>>

\* the pure-function variables while the download chain runs
PureIdle ==
    /\ arg = <<>>
    /\ ret = FALSE
    /\ op = "idle"

(***************************************************************************)
(* The link classifier applied to URLs                                     *)
(***************************************************************************)

Host == <<"h", "t", "t", "p", "s", ":", "/", "/", "c", ".", "e", "d", "u">>

UrlPaths ==
    { <<"/", "c", "o", "u", "r", "s", "e", "s", "/", "5", "/", "a", "s", "s", "i", "g", "n", "m", "e", "n", "t", "s", "/", "9">>,
      <<"/", "c", "o", "u", "r", "s", "e", "s", "/", "5", "/", "f", "i", "l", "e", "s", "/", "4", "2">>,
      <<"/", "c", "o", "u", "r", "s", "e", "s", "/", "5", "/", "f", "i", "l", "e", "s", "/", "4", "2", "/", "d", "o", "w", "n", "l", "o", "a", "d">>,
      <<"/", "c", "o", "u", "r", "s", "e", "s", "/", "5", "/", "f", "i", "l", "e", "s">>,
      <<"/", "c", "o", "u", "r", "s", "e", "s", "/", "5", "/", "d", "o", "w", "n", "l", "o", "a", "d">>,
      <<"/", "c", "o", "u", "r", "s", "e", "s", "/", "5", "/", "f", "i", "l", "e", "s", "/", "n", "o", "t", "e", "s", ".", "p", "d", "f">>,
      <<"/", "c", "o", "u", "r", "s", "e", "s", "/", "5", "/", "f", "i", "l", "e", "s", "/", "N", "o", "t", "e", "s", ".", "P", "D", "F">>,
      <<"/", "c", "o", "u", "r", "s", "e", "s", "/", "5", "/", "p", "a", "g", "e", "s", "/", "D", "e", "c", "k", ".", "P", "p", "T", "x">>,
      <<"/", "m", "e", "d", "i", "a", "/", "c", "l", "i", "p", ".", "m", "p", "4">>,
      <<"/", "c", "o", "u", "r", "s", "e", "s", "/", "5", "/", "p", "a", "g", "e", "s", "/", "a", ".", "p", "d", "f", ".", "h", "t", "m", "l">> }

UrlTails ==
    { <<>>,
      <<"?", "v", "e", "r", "i", "f", "i", "e", "r", "=", "a", "b", "c">>,
      <<"?", "d", "o", "w", "n", "l", "o", "a", "d", "=", "1">>,
      <<"?", "d", "o", "w", "n", "l", "o", "a", "d", "_", "f", "r", "d", "=", "1">>,
      <<"?", "v", "e", "r", "i", "f", "i", "e", "r", "=", "a", "b", "c", "&", "d", "o", "w", "n", "l", "o", "a", "d", "=", "1">>,
      <<"?", "v", "e", "r", "i", "f", "i", "e", "r", "=", "a", "b", "c", "&", "d", "o", "w", "n", "l", "o", "a", "d", "_", "f", "r", "d", "=", "1">>,
      <<"?", "n", "a", "m", "e", "=", "a", ".", "p", "d", "f">>,
      <<"#", "p", "a", "g", "e", "=", "2">> }

UrlInputs == {Host \o p \o t : p \in UrlPaths, t \in UrlTails} \cup {<<>>}

InitClassifier ==
    /\ RunIdle
    /\ DedupIdle
    /\ TreeIdle
    /\ arg \in UrlInputs
    /\ ret = FALSE
    /\ op = "none"
    /\ DownloadIdle
    /\ CoursesIdle

\* href and self._is_downloadable_link(href)
ClassifyLink ==
    /\ op = "none"
    /\ ret' = _is_downloadable_link(arg)
    /\ op' = "classified"
    /\ UNCHANGED <<arg, outsidePure>>

NextClassifier == ClassifyLink

SpecClassifier == InitClassifier /\ [][NextClassifier]_vars

(***************************************************************************)
(* The sanitizer applied to display names                                  *)
(***************************************************************************)

MaxNameLen == 3

NameAlphabet == {"A", "/", "*", ".", " ", "_"}

RECURSIVE NamesUpTo(_)
NamesUpTo(n) ==
    IF n = 0 THEN {<<>>}
    ELSE LET shorter == NamesUpTo(n - 1)
         IN  shorter \cup {Append(s, c) : s \in shorter, c \in NameAlphabet}

ExampleName == <<"A", "/", "B", ":", "C", "*", "?", ".", "p", "d", "f">>

NameInputs == NamesUpTo(MaxNameLen) \cup {ExampleName, <<"<", ">", ":", "\"", "/", "\\", "|", "?", "*">>, <<" ", "a", "?", "b", ".", "t", "x", "t", ".", " ">>}

InitSanitizer ==
    /\ RunIdle
    /\ DedupIdle
    /\ TreeIdle
    /\ arg \in NameInputs
    /\ ret = <<>>
    /\ op = "none"
    /\ DownloadIdle
    /\ CoursesIdle

\* safe_file_name = self._sanitize_filename(file_name)
SanitizeName ==
    /\ op = "none"
    /\ ret' = _sanitize_filename(arg)
    /\ op' = "sanitized"
    /\ UNCHANGED <<arg, outsidePure>>

NextSanitizer == SanitizeName

SpecSanitizer == InitSanitizer /\ [][NextSanitizer]_vars

(***************************************************************************)
(* The file loop of _process_folder, run twice over the same listing       *)
(***************************************************************************)

InitialFiles == {Absent, EmptyFile, OldFile}

Init ==
    /\ RunIdle
    /\ DedupIdle
    /\ TreeIdle
    /\ PureIdle
    /\ CoursesIdle
    /\ skip_existing \in BOOLEAN
    /\ names \in Listings
    /\ unloads \in [Items -> BOOLEAN]
    /\ fs \in {f \in [LocalPaths -> InitialFiles] :
                  \A p \in LocalPaths :
                      (\A i \in Items : LocalPath(names[i]) # p) => f[p] = Absent}
    /\ run = "first"
    /\ idx = 1
    /\ stale = FALSE
    /\ pc = "loop"
    /\ cur = [item |-> 0, file_path |-> <<>>]
    /\ button = "none"
    /\ download_url = "none"
    /\ status = 0
    /\ saved = "none"
    /\ result = "none"
    /\ trace = <<>>
    /\ navs = 0
    /\ reqs = 0
    /\ writes = 0
    /\ faults = {}
    /\ pre = Absent
    /\ called1 = {}
    /\ fsEnd1 = fs
    /\ nav2 = {}
    /\ req2 = {}

\* the call's own variables as a new call finds them
ResetCall ==
    /\ button' = "none"
    /\ download_url' = "none"
    /\ status' = 0
    /\ saved' = "none"
    /\ result' = "none"
    /\ trace' = <<>>
    /\ navs' = 0
    /\ reqs' = 0
    /\ writes' = 0
    /\ faults' = {}

\* for item in items: a row whose handle is stale raises in
\* item.get_attribute("class") and the except clause moves on to the next
\* row; otherwise the name is sanitized and _download_file is called
FileRow ==
    /\ pc = "loop"
    /\ idx \in Items
    /\ IF stale
       THEN /\ idx' = idx + 1
            /\ UNCHANGED <<pc, callVars, histVars>>
       ELSE /\ pc' = "check"
            /\ cur' = [item |-> idx, file_path |-> LocalPath(names[idx])]
            /\ pre' = fs[LocalPath(names[idx])]
            /\ ResetCall
            /\ called1' = IF run = "first" THEN called1 \cup {idx} ELSE called1
            /\ UNCHANGED <<idx, fsEnd1, nav2, req2>>
    /\ UNCHANGED <<outsideDownload, fixtureVars, fs, run, stale>>

\* _download_file has returned (or raised into the loop's except clause):
\* the loop goes on with the next row
NextRow ==
    /\ pc = "returned"
    /\ pc' = "loop"
    /\ idx' = idx + 1
    /\ UNCHANGED <<outsideDownload, fixtureVars, fs, run, stale, callVars, histVars>>

\* the loop is over: the first run is followed by a second one, which
\* renders the listing again
EndRun ==
    /\ pc = "loop"
    /\ idx = NumItems + 1
    /\ IF run = "first"
       THEN /\ run' = "second"
            /\ idx' = 1
            /\ stale' = FALSE
            /\ fsEnd1' = fs
            /\ pc' = "loop"
       ELSE /\ pc' = "done"
            /\ UNCHANGED <<run, idx, stale, fsEnd1>>
    /\ UNCHANGED <<outsideDownload, fixtureVars, fs, callVars, called1, nav2, req2>>

(***************************************************************************)
(* _download_file, step by step                                            *)
(***************************************************************************)

\* the skip test with its size comparison turned round
SkipsOnlyEmpty(skip, file) == skip /\ Exists(file) /\ file.size = 0

\* self.skip_existing and os.path.exists(file_path) and file_size > 0
SkipsExisting(skip, file) == skip /\ Exists(file) /\ file.size > 0

\* a screenshot helper without its try/except
ScreenshotPropagates(driver_fails) == driver_fails

\* whether _take_screenshot raises when the driver call inside it fails
TakeScreenshotRaises(driver_fails) == FALSE

\* the direct transfer accepting every status below 400
DirectAcceptsBelow400(code) == code < 400

\* if response.status_code == 200
DirectTransferOk(code) == code = HTTP_OK

\* response.raise_for_status() raises
RaiseForStatus(code) == code >= 400

\* control enters the except clause of _download_file
ToHandler(cause) ==
    /\ pc' = "handler"
    /\ faults' = faults \cup {cause}

NoteTransfer == req2' = IF run = "second" THEN req2 \cup {cur.item} ELSE req2

DF_SkipCheck ==
    /\ pc = "check"
    /\ IF SkipsExisting(skip_existing, fs[cur.file_path])
       THEN /\ result' = "true"
            /\ pc' = "returned"
       ELSE /\ pc' = "navigate"
            /\ UNCHANGED result
    /\ UNCHANGED <<outsideDownload, fixtureVars, fs, loopVars, stale, cur, button, download_url,
                   status, saved, trace, navs, reqs, writes, faults, pre, histVars>>

\* self.driver.get(file_url), then the screenshot of the preview page
DF_Navigate ==
    /\ pc = "navigate"
    /\ navs' = navs + 1
    /\ stale' = (stale \/ unloads[cur.item])
    /\ nav2' = IF run = "second" THEN nav2 \cup {cur.item} ELSE nav2
    /\ \E get_fails \in BOOLEAN, shot_fails \in BOOLEAN :
           IF get_fails \/ TakeScreenshotRaises(shot_fails)
           THEN ToHandler("navigation")
           ELSE pc' = "wait_primary" /\ UNCHANGED faults
    /\ UNCHANGED <<outsideDownload, fixtureVars, fs, loopVars, cur, button, download_url, status,
                   saved, result, trace, reqs, writes, pre, called1, fsEnd1, req2>>

\* WebDriverWait(...).until(element_to_be_clickable("a.icon-download"))
DF_WaitPrimary ==
    /\ pc = "wait_primary"
    /\ trace' = Append(trace, "primary")
    /\ \E outcome \in {"found", "timeout", "error"} :
           CASE outcome = "found" ->
                    button' = "primary" /\ pc' = "href" /\ UNCHANGED faults
             [] outcome = "timeout" ->
                    pc' = "wait_alt" /\ UNCHANGED <<button, faults>>
             [] OTHER ->
                    ToHandler("lookup") /\ UNCHANGED button
    /\ UNCHANGED <<outsideDownload, fixtureVars, fs, loopVars, stale, cur, download_url, status,
                   saved, result, navs, reqs, writes, pre, histVars>>

\* except TimeoutException: the wait for the alternative selectors, and on
\* its timeout the screenshot before the direct download
DF_WaitAlt ==
    /\ pc = "wait_alt"
    /\ trace' = Append(trace, "alternate")
    /\ \E outcome \in {"found", "timeout", "error"}, shot_fails \in BOOLEAN :
           CASE outcome = "found" ->
                    button' = "alternate" /\ pc' = "href" /\ UNCHANGED faults
             [] outcome = "timeout" /\ ~TakeScreenshotRaises(shot_fails) ->
                    pc' = "direct" /\ UNCHANGED <<button, faults>>
             [] OTHER ->
                    ToHandler("lookup") /\ UNCHANGED button
    /\ UNCHANGED <<outsideDownload, fixtureVars, fs, loopVars, stale, cur, download_url, status,
                   saved, result, navs, reqs, writes, pre, histVars>>

\* response = self.session.get(file_url, stream=True) and the test of its
\* status: a status other than 200 returns False at once
DF_Direct ==
    /\ pc = "direct"
    /\ trace' = Append(trace, "direct")
    /\ reqs' = reqs + 1
    /\ NoteTransfer
    /\ \/ /\ ToHandler("transfer")
          /\ UNCHANGED <<status, result>>
       \/ \E code \in Statuses :
              /\ status' = code
              /\ IF DirectTransferOk(code)
                 THEN pc' = "save" /\ UNCHANGED result
                 ELSE pc' = "returned" /\ result' = "false"
              /\ faults' = IF DirectTransferOk(code) THEN faults ELSE faults \cup {"status"}
    /\ UNCHANGED <<outsideDownload, fixtureVars, fs, loopVars, stale, cur, button, download_url,
                   saved, navs, writes, pre, called1, fsEnd1, nav2>>

\* download_url = download_button.get_attribute("href")
DF_Href ==
    /\ pc = "href"
    /\ \/ ToHandler("lookup") /\ UNCHANGED download_url
       \/ \E href \in {"url", "None"} :
              download_url' = href /\ pc' = "transfer" /\ UNCHANGED faults
    /\ UNCHANGED <<outsideDownload, fixtureVars, fs, loopVars, stale, cur, button, status, saved,
                   result, trace, navs, reqs, writes, pre, histVars>>

\* response = self.session.get(download_url, stream=True) and
\* response.raise_for_status(); a control without href makes get raise
\* before anything is sent
DF_Transfer ==
    /\ pc = "transfer"
    /\ trace' = Append(trace, "button_transfer")
    /\ IF download_url = "None"
       THEN /\ ToHandler("transfer")
            /\ UNCHANGED <<status, reqs, req2>>
       ELSE /\ reqs' = reqs + 1
            /\ NoteTransfer
            /\ \/ ToHandler("transfer") /\ UNCHANGED status
               \/ \E code \in Statuses :
                      /\ status' = code
                      /\ IF RaiseForStatus(code)
                         THEN ToHandler("status")
                         ELSE pc' = "save" /\ UNCHANGED faults
    /\ UNCHANGED <<outsideDownload, fixtureVars, fs, loopVars, stale, cur, button, download_url,
                   saved, result, navs, writes, pre, called1, fsEnd1, nav2>>

\* self._save_file_with_progress(response, file_path); return True.
\* It may raise before the file is opened (the content-length header, the
\* open itself) or while the chunks are read, after written of them.
DF_Save ==
    /\ pc = "save"
    /\ \/ /\ saved' = "failed"
          /\ ToHandler("write")
          /\ UNCHANGED <<fs, writes, result>>
       \/ \E body \in 0..MaxBody, written \in 0..MaxBody :
              /\ written <= body
              /\ fs' = [fs EXCEPT ![cur.file_path] = [size |-> written, src |-> cur.item]]
              /\ writes' = writes + 1
              /\ IF written = body
                 THEN /\ saved' = "ok"
                      /\ result' = "true"
                      /\ pc' = "returned"
                      /\ UNCHANGED faults
                 ELSE /\ saved' = "failed"
                      /\ ToHandler("write")
                      /\ UNCHANGED result
    /\ UNCHANGED <<outsideDownload, fixtureVars, loopVars, stale, cur, button, download_url,
                   status, trace, navs, reqs, pre, histVars>>

\* except Exception: the screenshot, the empty placeholder (whose own
\* failure is swallowed), return False
DF_Handler ==
    /\ pc = "handler"
    /\ pc' = "returned"
    /\ \E shot_fails \in BOOLEAN, open_fails \in BOOLEAN :
           IF TakeScreenshotRaises(shot_fails)
           THEN /\ result' = "raised"
                /\ UNCHANGED <<fs, writes, faults>>
           ELSE /\ result' = "false"
                /\ IF open_fails
                   THEN /\ faults' = faults \cup {"placeholder"}
                        /\ UNCHANGED <<fs, writes>>
                   ELSE /\ fs' = [fs EXCEPT ![cur.file_path] = EmptyFile]
                        /\ writes' = writes + 1
                        /\ UNCHANGED faults
    /\ UNCHANGED <<outsideDownload, fixtureVars, loopVars, stale, cur, button, download_url,
                   status, saved, trace, navs, reqs, pre, histVars>>

Next ==
    \/ FileRow
    \/ NextRow
    \/ EndRun
    \/ DF_SkipCheck
    \/ DF_Navigate
    \/ DF_WaitPrimary
    \/ DF_WaitAlt
    \/ DF_Direct
    \/ DF_Href
    \/ DF_Transfer
    \/ DF_Save
    \/ DF_Handler

Spec == Init /\ [][Next]_vars

(***************************************************************************)
(* Course discovery: the three strategies of get_courses                   *)
(***************************************************************************)

\* the characters str.strip() removes
Whitespace == {" ", "\t", "\n", "\r"}

Digits == {"0", "1", "2", "3", "4", "5", "6", "7", "8", "9"}

\* Python: s.isdigit()
IsDigit(s) == s # <<>> /\ \A i \in 1..Len(s) : s[i] \in Digits

\* index at which sep first occurs in s, 0 if it does not
Find(s, sep) ==
    IF Contains(s, sep)
    THEN CHOOSE i \in 1..Len(s) :
             MatchesAt(s, sep, i) /\ \A j \in 1..(i - 1) : ~MatchesAt(s, sep, j)
    ELSE 0

\* Python: s.split(sep)[0]
SplitHead(s, sep) == IF Contains(s, sep) THEN SubSeq(s, 1, Find(s, sep) - 1) ELSE s

\* Python: s.split(sep)[1], defined when sep occurs in s
SplitSecond(s, sep) == SplitHead(SubSeq(s, Find(s, sep) + Len(sep), Len(s)), sep)

CoursesMarker == <<"/", "c", "o", "u", "r", "s", "e", "s", "/">>

\* course_url.split("/courses/")[1].split("/")[0]
CourseIdOf(course_url) == SplitHead(SplitSecond(course_url, CoursesMarker), <<"/">>)

Course(id, name, url) == [id |-> id, name |-> name, url |-> url]

\* for card in course_cards[n..]: a card without title element, without
\* link element, without href, or whose href has no "/courses/" raises
\* inside the loop's try and is left out
RECURSIVE DashboardLoop(_, _, _)
DashboardLoop(cards, n, acc) ==
    IF n > Len(cards) THEN acc
    ELSE LET card == cards[n]
             ok == /\ card.has_title
                   /\ card.has_link
                   /\ card.has_href
                   /\ Contains(card.href, CoursesMarker)
         IN  DashboardLoop(cards, n + 1,
                 IF ok
                 THEN Append(acc, Course(CourseIdOf(card.href),
                                             Strip(card.text, Whitespace), card.href))
                 ELSE acc)

\* returns [] at once when no card is on the page
_get_courses_from_dashboard(cards) ==
    IF cards = <<>> THEN <<>> ELSE DashboardLoop(cards, 1, <<>>)

\* for row in course_rows[n..]: a row without a course anchor raises inside
\* the loop's try and is left out
RECURSIVE TableLoop(_, _, _)
TableLoop(rows, n, acc) ==
    IF n > Len(rows) THEN acc
    ELSE LET row == rows[n]
             ok == /\ row.has_link
                   /\ row.has_href
                   /\ Contains(row.href, CoursesMarker)
         IN  TableLoop(rows, n + 1,
                 IF ok
                 THEN Append(acc, Course(CourseIdOf(row.href),
                                             Strip(row.text, Whitespace), row.href))
                 ELSE acc)

\* the wait for the table times out when there is none; the header row is
\* skipped (course_rows[1:])
_get_courses_from_all_courses_table(rows) ==
    IF rows = <<>> THEN <<>> ELSE TableLoop(rows, 2, <<>>)

NavigationLabels == { <<"a", "l", "l", " ", "c", "o", "u", "r", "s", "e", "s">>, <<"d", "a", "s", "h", "b", "o", "a", "r", "d">>, <<"c", "o", "u", "r", "s", "e", "s">> }

\* for link in course_links[n..]
RECURSIVE ListLoop(_, _, _)
ListLoop(links, n, acc) ==
    IF n > Len(links) THEN acc
    ELSE LET link == links[n]
             course_url == link.href
             skipped == \/ ~link.has_href
                        \/ Contains(course_url, <<"/", "c", "o", "u", "r", "s", "e", "s", "/", "a", "l", "l">>)
                        \/ Contains(course_url, <<"/", "c", "o", "u", "r", "s", "e", "s", "/", "f", "a", "v", "o", "r", "i", "t", "e", "s">>)
                        \/ Contains(course_url, <<"/", "c", "o", "u", "r", "s", "e", "s", "/", "s", "e", "a", "r", "c", "h">>)
                        \/ ~Contains(course_url, CoursesMarker)
             course_id == CourseIdOf(course_url)
             course_name == Strip(link.text, Whitespace)
             ok == /\ ~skipped
                   /\ IsDigit(course_id)
                   /\ course_name # <<>>
                   /\ Lower(course_name) \notin NavigationLabels
                   /\ ~\E k \in 1..Len(acc) : acc[k].id = course_id
         IN  ListLoop(links, n + 1,
                 IF ok THEN Append(acc, Course(course_id, course_name, course_url))
                 ELSE acc)

_get_courses_from_list_view(links) == ListLoop(links, 1, <<>>)

\* a strategy whose except clause re-raises what it caught
StrategyReraises(fails, computed) ==
    [raised |-> fails, value |-> IF fails THEN <<>> ELSE computed]

\* every strategy runs inside try/except Exception and returns [] from the
\* except clause: fails says whether something raised outside the per-element
\* try (a navigation, a wait, find_elements)
StrategyOutcome(fails, computed) ==
    [raised |-> FALSE, value |-> IF fails THEN <<>> ELSE computed]

\* get_courses going on to the table view whatever the dashboard gave
AlwaysTriesTable(after, value) ==
    CASE after = "dashboard" -> "table"
      [] after = "table" -> IF value # <<>> THEN "return" ELSE "list"

\* what get_courses does with the list a strategy returned:
\* if not courses: table view; if courses: return courses; else list view
AfterStrategy(after, value) ==
    CASE after = "dashboard" -> IF value = <<>> THEN "table" ELSE "return"
      [] after = "table" -> IF value # <<>> THEN "return" ELSE "list"

(***************************************************************************)
(* The pages get_courses may meet                                          *)
(***************************************************************************)

Elem(text, href) ==
    [has_title |-> TRUE, has_link |-> TRUE, has_href |-> TRUE, text |-> text, href |-> href]

\* an element whose title, link or href cannot be read
Broken(what) ==
    [has_title |-> what # "title", has_link |-> what # "link", has_href |-> what # "href",
     text |-> <<"A", "r", "t">>, href |-> <<>>]

Url101 == Host \o <<"/", "c", "o", "u", "r", "s", "e", "s", "/", "1", "0", "1">>

Url102 == Host \o <<"/", "c", "o", "u", "r", "s", "e", "s", "/", "1", "0", "2", "/", "m", "o", "d", "u", "l", "e", "s">>

Url103 == Host \o <<"/", "c", "o", "u", "r", "s", "e", "s", "/", "1", "0", "3">>

Math == Elem(<<" ", "M", "a", "t", "h", " ">>, Url101)

Bio == Elem(<<"B", "i", "o">>, Url102)

Chem == Elem(<<"C", "h", "e", "m">>, Url103)

\* anchors the generic list view turns down or keeps only once
MathAgain == Elem(<<"M", "a", "t", "h", " ", "I", "I">>, Host \o <<"/", "c", "o", "u", "r", "s", "e", "s", "/", "1", "0", "1", "/", "g", "r", "a", "d", "e", "s">>)

AllCoursesLink == Elem(<<"A", "l", "l", " ", "C", "o", "u", "r", "s", "e", "s">>, Host \o <<"/", "c", "o", "u", "r", "s", "e", "s", "/", "a", "l", "l", "_", "c", "o", "u", "r", "s", "e", "s">>)

DashboardLink == Elem(<<"D", "a", "s", "h", "b", "o", "a", "r", "d">>, Url101)

Untitled == Elem(<<" ", " ">>, Url102)

Playground == Elem(<<"P", "l", "a", "y">>, Host \o <<"/", "c", "o", "u", "r", "s", "e", "s", "/", "a", "b", "c">>)

About == Elem(<<"A", "b", "o", "u", "t">>, Host \o <<"/", "a", "b", "o", "u", "t">>)

Header == Broken("link")

CardPages ==
    { <<>>,
      <<Math>>,
      <<Broken("title"), Bio, Math>>,
      <<About, Broken("href")>> }

TablePages ==
    { <<>>,
      <<Header>>,
      <<Header, Math, Bio, Chem>>,
      <<Header, Chem, Broken("link"), Playground>> }

LinkPages ==
    { <<>>,
      <<AllCoursesLink, DashboardLink, Untitled, Playground>>,
      <<AllCoursesLink, Math, MathAgain, Bio>>,
      <<Chem, Broken("href"), Math>> }

(***************************************************************************)
(* get_courses, step by step                                               *)
(***************************************************************************)

InitCourses ==
    /\ RunIdle
    /\ DedupIdle
    /\ TreeIdle
    /\ PureIdle
    /\ DownloadIdle
    /\ course_cards \in CardPages
    /\ course_rows \in TablePages
    /\ course_links \in LinkPages
    /\ location = "/"
    /\ gc_pc = "begin"
    /\ calls = <<>>
    /\ courses = <<>>
    /\ found = [s \in Strategies |-> <<>>]
    /\ gc_failed = {}
    /\ returned = <<>>
    /\ gc_result = "none"

\* self.driver.get(f"{self.canvas_url}/courses") and the screenshot
GC_Begin ==
    /\ gc_pc = "begin"
    /\ \E get_fails \in BOOLEAN, shot_fails \in BOOLEAN :
           IF get_fails \/ TakeScreenshotRaises(shot_fails)
           THEN /\ gc_pc' = "except"
                /\ gc_failed' = gc_failed \cup {"begin"}
                /\ UNCHANGED location
           ELSE /\ gc_pc' = "dashboard"
                /\ location' = "/courses"
                /\ UNCHANGED gc_failed
    /\ UNCHANGED <<outsideCourses, course_cards, course_rows, course_links, calls, courses,
                   found, returned, gc_result>>

\* where get_courses goes on after a strategy returned value
Continue(after, value) ==
    CASE AfterStrategy(after, value) = "table" -> "table"
      [] AfterStrategy(after, value) = "list" -> "list"
      [] OTHER -> "found"

\* courses = self._get_courses_from_dashboard()
GC_Dashboard ==
    /\ gc_pc = "dashboard"
    /\ calls' = Append(calls, "dashboard")
    /\ \E fails \in BOOLEAN :
           LET out == StrategyOutcome(fails, _get_courses_from_dashboard(course_cards))
           IN  /\ gc_failed' = IF fails THEN gc_failed \cup {"dashboard"} ELSE gc_failed
               /\ IF out.raised
                  THEN gc_pc' = "except" /\ UNCHANGED <<courses, found>>
                  ELSE /\ courses' = out.value
                       /\ found' = [found EXCEPT !["dashboard"] = out.value]
                       /\ gc_pc' = Continue("dashboard", out.value)
    /\ UNCHANGED <<outsideCourses, course_cards, course_rows, course_links, location,
                   returned, gc_result>>

\* courses = self._get_courses_from_all_courses_table(): the browser is
\* taken to the "All Courses" page unless it is there already
GC_Table ==
    /\ gc_pc = "table"
    /\ calls' = Append(calls, "table")
    /\ \E fails \in BOOLEAN, moved \in BOOLEAN :
           LET out == StrategyOutcome(fails,
                          _get_courses_from_all_courses_table(course_rows))
           IN  /\ gc_failed' = IF fails THEN gc_failed \cup {"table"} ELSE gc_failed
               /\ location' = IF fails /\ ~moved THEN location ELSE "/courses/all_courses"
               /\ IF out.raised
                  THEN gc_pc' = "except" /\ UNCHANGED <<courses, found>>
                  ELSE /\ courses' = out.value
                       /\ found' = [found EXCEPT !["table"] = out.value]
                       /\ gc_pc' = Continue("table", out.value)
    /\ UNCHANGED <<outsideCourses, course_cards, course_rows, course_links, returned,
                   gc_result>>

\* if courses: return courses
GC_Found ==
    /\ gc_pc = "found"
    /\ returned' = courses
    /\ gc_result' = "list"
    /\ gc_pc' = "returned"
    /\ UNCHANGED <<outsideCourses, course_cards, course_rows, course_links, location,
                   calls, courses, found, gc_failed>>

\* return self._get_courses_from_list_view(): the browser is taken back to
\* the courses page unless its URL ends in /courses
GC_List ==
    /\ gc_pc = "list"
    /\ calls' = Append(calls, "list")
    /\ \E fails \in BOOLEAN, moved \in BOOLEAN :
           LET out == StrategyOutcome(fails, _get_courses_from_list_view(course_links))
           IN  /\ gc_failed' = IF fails THEN gc_failed \cup {"list"} ELSE gc_failed
               /\ location' = IF fails /\ ~moved THEN location ELSE "/courses"
               /\ IF out.raised
                  THEN gc_pc' = "except" /\ UNCHANGED <<found, returned, gc_result>>
                  ELSE /\ found' = [found EXCEPT !["list"] = out.value]
                       /\ returned' = out.value
                       /\ gc_result' = "list"
                       /\ gc_pc' = "returned"
    /\ UNCHANGED <<outsideCourses, course_cards, course_rows, course_links, courses>>

\* except Exception in get_courses: the screenshot, return []
GC_Except ==
    /\ gc_pc = "except"
    /\ gc_pc' = "returned"
    /\ returned' = <<>>
    /\ \E shot_fails \in BOOLEAN :
           gc_result' = IF TakeScreenshotRaises(shot_fails) THEN "raised" ELSE "list"
    /\ UNCHANGED <<outsideCourses, course_cards, course_rows, course_links, location,
                   calls, courses, found, gc_failed>>

NextCourses ==
    \/ GC_Begin
    \/ GC_Dashboard
    \/ GC_Table
    \/ GC_Found
    \/ GC_List
    \/ GC_Except

SpecCourses == InitCourses /\ [][NextCourses]_vars

(***************************************************************************)
(* CanvasScraper._process_folder over a remote folder tree                 *)
(***************************************************************************)

\* how many waits for the listing marker may time out in one traversal
MaxTimeouts == 1

\* a row of a folder listing: a subfolder (class ef-item-folder) or a file
Folder(name, child) == [kind |-> "folder", name |-> name, child |-> child]

File(name) == [kind |-> "file", name |-> name, child |-> 0]

\* the remote trees: folder -> its listing, folder 0 being the root
Trees ==
    { \* root holds subfolder A and y.doc; A holds x.pdf
      <<"two_level", [f \in 0..1 |->
          IF f = 0 THEN <<Folder(<<"A">>, 1), File(<<"y", ".", "d", "o", "c">>)>>
          ELSE <<File(<<"x", ".", "p", "d", "f">>)>>]>>,
      \* the same tree, the file row listed first
      <<"file_first", [f \in 0..1 |->
          IF f = 0 THEN <<File(<<"y", ".", "d", "o", "c">>), Folder(<<"A">>, 1)>>
          ELSE <<File(<<"x", ".", "p", "d", "f">>)>>]>>,
      \* two sibling subfolders and a file
      <<"siblings", [f \in 0..2 |->
          CASE f = 0 -> <<Folder(<<"A">>, 1), Folder(<<"B", "?">>, 2), File(<<"y", ".", "d", "o", "c">>)>>
            [] f = 1 -> <<File(<<"x", ".", "p", "d", "f">>)>>
            [] f = 2 -> <<File(<<" ", "z", ".", "t", "x", "t">>)>>]>>,
      \* two sibling files
      <<"two_files", [f \in 0..0 |-> <<File(<<"p", ".", "p", "d", "f">>), File(<<"q", ".", "p", "d", "f">>)>>]>>,
      \* a chain of subfolders
      <<"chain", [f \in 0..2 |->
          CASE f = 0 -> <<Folder(<<"A">>, 1)>>
            [] f = 1 -> <<Folder(<<"B", "?">>, 2), File(<<"x", ".", "p", "d", "f">>)>>
            [] f = 2 -> <<File(<<" ", "z", ".", "t", "x", "t">>)>>]>> }

\* current_dir of the outermost call
RootDir == << <<"r", "o", "o", "t">> >>

\* the element handles find_elements gives for the listing of folder f on
\* page p
Handles(listing, f, p) == [k \in 1..Len(listing[f]) |-> [page |-> p, row |-> k]]

\* a handle is usable only on the page it was obtained from
Stale(h, p) == h.page # p

\* the frame of one _process_folder call
NewFrame(f, dir) ==
    [folder |-> f, dir |-> dir, phase |-> "enter", iter |-> <<>>, pos |-> 1,
     items |-> <<>>, subfolder_count |-> 0, file_count |-> 0]

\* what is recorded of a step: the folder whose call made it and the page
\* the browser showed afterwards
Event(e, f, p) ==
    [e |-> e, f |-> f, page |-> p, row |-> 0, hpage |-> 0, path |-> <<>>,
     subfolder_count |-> 0, file_count |-> 0]

ReadEvent(f, p, h) == [Event("read", f, p) EXCEPT !.row = h.row, !.hpage = h.page]

PathEvent(e, f, p, path) == [Event(e, f, p) EXCEPT !.path = path]

\* os.path.join(current_dir, self._sanitize_filename(text.strip()))
Join(dir, name) == Append(dir, _sanitize_filename(Strip(name, Whitespace)))

\* the wait for ef-directory raising TimeoutException is taken for an
\* ordinary listing
IgnoresTimeout(appeared) == "list"

\* except TimeoutException: return
AfterListingWait(appeared) == IF appeared THEN "list" ELSE "return"

\* the file loop going over the list the subfolder loop went over
FileLoopOverOriginal(original, refreshed) == original

\* for item in items, evaluated when the file loop starts: the list last
\* bound to items
FileLoopItems(original, refreshed) == refreshed

InitFolders ==
    /\ RunIdle
    /\ DedupIdle
    /\ PureIdle
    /\ DownloadIdle
    /\ CoursesIdle
    /\ tree \in Trees
    /\ page = 0
    /\ stack = <<NewFrame(0, RootDir)>>
    /\ log = <<>>
    /\ timeouts = 0

Listing == tree[2]

Top == stack[Len(stack)]

Pop == SubSeq(stack, 1, Len(stack) - 1)

SetTop(frame) == [stack EXCEPT ![Len(stack)] = frame]

\* self.driver.get(folder_url) and the wait for the listing marker; then
\* items = find_elements(ef-item-row)
PF_Enter ==
    /\ stack # <<>>
    /\ Top.phase = "enter"
    /\ page' = page + 1
    /\ \E appeared \in BOOLEAN :
           /\ ~appeared => timeouts < MaxTimeouts
           /\ timeouts' = IF appeared THEN timeouts ELSE timeouts + 1
           /\ log' = Append(log, Event(IF appeared THEN "listing" ELSE "timeout",
                                       Top.folder, page + 1))
           /\ IF AfterListingWait(appeared) = "list"
              THEN stack' = SetTop([Top EXCEPT
                                !.phase = "subfolders",
                                !.iter = Handles(Listing, Top.folder, page + 1),
                                !.items = Handles(Listing, Top.folder, page + 1),
                                !.pos = 1])
              ELSE stack' = Pop
    /\ UNCHANGED <<outsideFolders, tree>>

\* one turn of the subfolder loop: a stale row raises in get_attribute and
\* the except clause goes on to the next row; a folder row is counted, its
\* directory made, its name clicked and _process_folder called for it
PF_SubfolderRow ==
    /\ stack # <<>>
    /\ Top.phase = "subfolders"
    /\ Top.pos <= Len(Top.iter)
    /\ LET h == Top.iter[Top.pos]
           row == Listing[Top.folder][h.row]
           read == ReadEvent(Top.folder, page, h)
           subfolder_path == Join(Top.dir, row.name)
       IN  IF Stale(h, page) \/ row.kind # "folder"
           THEN /\ stack' = SetTop([Top EXCEPT !.pos = @ + 1])
                /\ log' = Append(log, read)
                /\ UNCHANGED page
           ELSE /\ stack' = Append(SetTop([Top EXCEPT !.phase = "back",
                                                       !.subfolder_count = @ + 1]),
                                   NewFrame(row.child, subfolder_path))
                /\ page' = page + 1
                /\ log' = log \o << read,
                                    PathEvent("mkdir", Top.folder, page, subfolder_path),
                                    PathEvent("descend", Top.folder, page + 1, subfolder_path) >>
    /\ UNCHANGED <<outsideFolders, tree, timeouts>>

\* the recursive call has returned: self.driver.get(folder_url), the wait
\* for the marker (its timeout raised into the except clause of the loop)
\* and items = find_elements(ef-item-row)
PF_Back ==
    /\ stack # <<>>
    /\ Top.phase = "back"
    /\ page' = page + 1
    /\ \E appeared \in BOOLEAN :
           /\ ~appeared => timeouts < MaxTimeouts
           /\ timeouts' = IF appeared THEN timeouts ELSE timeouts + 1
           /\ log' = Append(log, Event(IF appeared THEN "relisted" ELSE "back_timeout",
                                       Top.folder, page + 1))
           /\ stack' = SetTop([Top EXCEPT
                          !.phase = "subfolders",
                          !.pos = @ + 1,
                          !.items = IF appeared
                                    THEN Handles(Listing, Top.folder, page + 1)
                                    ELSE @])
    /\ UNCHANGED <<outsideFolders, tree>>

\* the subfolder loop is over: for item in items begins
PF_FilesBegin ==
    /\ stack # <<>>
    /\ Top.phase = "subfolders"
    /\ Top.pos > Len(Top.iter)
    /\ stack' = SetTop([Top EXCEPT !.phase = "files",
                                   !.iter = FileLoopItems(Top.iter, Top.items),
                                   !.pos = 1])
    /\ UNCHANGED <<outsideFolders, tree, page, log, timeouts>>

\* one turn of the file loop: a stale row raises and is passed over; a file
\* row is counted and _download_file called for it, which leaves the page
\* when it navigates to the preview
PF_FileRow ==
    /\ stack # <<>>
    /\ Top.phase = "files"
    /\ Top.pos <= Len(Top.iter)
    /\ LET h == Top.iter[Top.pos]
           row == Listing[Top.folder][h.row]
           read == ReadEvent(Top.folder, page, h)
       IN  IF Stale(h, page) \/ row.kind # "file"
           THEN /\ stack' = SetTop([Top EXCEPT !.pos = @ + 1])
                /\ log' = Append(log, read)
                /\ UNCHANGED page
           ELSE /\ stack' = SetTop([Top EXCEPT !.pos = @ + 1, !.file_count = @ + 1])
                /\ \E navigates \in BOOLEAN :
                       /\ page' = IF navigates THEN page + 1 ELSE page
                       /\ log' = log \o << read,
                                           PathEvent("download", Top.folder, page',
                                                     Join(Top.dir, row.name)) >>
    /\ UNCHANGED <<outsideFolders, tree, timeouts>>

\* the file loop is over: the counts are logged and the call returns
PF_Return ==
    /\ stack # <<>>
    /\ Top.phase = "files"
    /\ Top.pos > Len(Top.iter)
    /\ stack' = Pop
    /\ log' = Append(log, [Event("return", Top.folder, page) EXCEPT
                               !.subfolder_count = Top.subfolder_count,
                               !.file_count = Top.file_count])
    /\ UNCHANGED <<outsideFolders, tree, page, timeouts>>

NextFolders ==
    \/ PF_Enter
    \/ PF_SubfolderRow
    \/ PF_Back
    \/ PF_FilesBegin
    \/ PF_FileRow
    \/ PF_Return

SpecFolders == InitFolders /\ [][NextFolders]_vars

(***************************************************************************)
(* CanvasScraper.run and process_course                                    *)
(***************************************************************************)

\* number of courses get_courses returns
NumCourses == 2

\* the three scans of process_course, in call order
Scans == <<"homepage", "modules", "files">>

\* how a scan may end: files found, nothing found, failures inside its
\* per-item try blocks (logged and passed over, nothing found), or an
\* exception raised
\* outside every try block of the scan (driver.get, find_elements,
\* os.makedirs, the navigation back to return_url, _process_folder's own
\* navigation), which leaves the scan
ScanOutcomes == {"found", "nothing", "swallowed", "raised"}

\* process_course has no try block: what a scan raises leaves process_course
ProcessCourseRaises(outcome) == outcome = "raised"

\* what a scan that returned reports to process_course
FilesFound(outcome) == outcome = "found"

\* a warning whenever one of the scans found nothing
WarnsWhenAnyEmpty(reports) == ~(reports[1] /\ reports[2] /\ reports[3])

\* if not (homepage_files_found or modules_files_found or files_section_found)
NoFilesWarning(reports) == ~(reports[1] \/ reports[2] \/ reports[3])

ScanEvent(c, name, outcome) == [course |-> c, what |-> name, outcome |-> outcome]

InitRun ==
    /\ DedupIdle
    /\ PureIdle
    /\ DownloadIdle
    /\ CoursesIdle
    /\ TreeIdle
    /\ run_pc = "start"
    /\ discovered = 0
    /\ course = 0
    /\ scan = 0
    /\ outcomes = <<>>
    /\ processed = <<>>
    /\ run_result = "none"
    /\ browser = "none"
    /\ course_log = <<>>

\* os.makedirs(base_download_dir), self.login(), self.get_courses(): a
\* failed login or an empty course list returns False, an exception goes to
\* the except clause; login creates the browser, and fails or raises before
\* or after having done so
RUN_Start ==
    /\ run_pc = "start"
    /\ \E step \in {"raises", "login_fails", "no_courses", "courses"} :
           CASE step = "raises" ->
                    /\ run_pc' = "except"
                    /\ browser' \in {"none", "open"}
                    /\ UNCHANGED <<discovered, course, run_result>>
             [] step = "login_fails" ->
                    /\ run_pc' = "finally"
                    /\ run_result' = "false"
                    /\ browser' \in {"none", "open"}
                    /\ UNCHANGED <<discovered, course>>
             [] step = "no_courses" ->
                    /\ run_pc' = "finally"
                    /\ run_result' = "false"
                    /\ browser' = "open"
                    /\ UNCHANGED <<discovered, course>>
             [] OTHER ->
                    \E n \in 1..NumCourses :
                        /\ discovered' = n
                        /\ course' = 1
                        /\ run_pc' = "course"
                        /\ browser' = "open"
                        /\ UNCHANGED run_result
    /\ UNCHANGED <<outsideRun, scan, outcomes, processed, course_log>>

\* for i, course in enumerate(courses, 1): self.process_course(course), up
\* to os.makedirs(course_dir)
RUN_Course ==
    /\ run_pc = "course"
    /\ course <= discovered
    /\ processed' = Append(processed, course)
    /\ \E makedirs_fails \in BOOLEAN :
           IF makedirs_fails
           THEN /\ run_pc' = "except"
                /\ UNCHANGED <<scan, outcomes>>
           ELSE /\ run_pc' = "scan"
                /\ scan' = 1
                /\ outcomes' = <<>>
    /\ UNCHANGED <<outsideRun, discovered, course, run_result, browser, course_log>>

\* one of _process_course_homepage, _process_course_modules,
\* _process_course_files_section; after the third, process_course logs the
\* warning if none of them found a file and returns, and the loop of run
\* goes on to the next course
RUN_Scan ==
    /\ run_pc = "scan"
    /\ \E outcome \in ScanOutcomes :
           LET ran == Append(course_log, ScanEvent(course, Scans[scan], outcome))
           IN  /\ outcomes' = Append(outcomes, outcome)
               /\ IF ProcessCourseRaises(outcome)
                  THEN /\ run_pc' = "except"
                       /\ course_log' = ran
                       /\ UNCHANGED <<scan, course>>
                  ELSE IF scan < Len(Scans)
                       THEN /\ scan' = scan + 1
                            /\ course_log' = ran
                            /\ UNCHANGED <<run_pc, course>>
                       ELSE /\ scan' = 0
                            /\ course' = course + 1
                            /\ run_pc' = "course"
                            /\ course_log' =
                                   IF NoFilesWarning([k \in 1..Len(Scans) |->
                                                         FilesFound(outcomes'[k])])
                                   THEN Append(ran, ScanEvent(course, "warning", "none"))
                                   ELSE ran
    /\ UNCHANGED <<outsideRun, discovered, processed, run_result, browser>>

\* the loop is over: return True
RUN_Done ==
    /\ run_pc = "course"
    /\ course > discovered
    /\ run_result' = "true"
    /\ run_pc' = "finally"
    /\ UNCHANGED <<outsideRun, discovered, course, scan, outcomes, processed, browser,
                   course_log>>

\* except Exception: return False
RUN_Except ==
    /\ run_pc = "except"
    /\ run_result' = "false"
    /\ run_pc' = "finally"
    /\ UNCHANGED <<outsideRun, discovered, course, scan, outcomes, processed, browser,
                   course_log>>

\* a finally clause that leaves the browser as it is
LeavesBrowser(driver) == driver

\* if self.driver: self.driver.quit()
QuitIfCreated(driver) == IF driver = "none" THEN driver ELSE "closed"

\* finally: the browser is closed if there is one
RUN_Finally ==
    /\ run_pc = "finally"
    /\ browser' = QuitIfCreated(browser)
    /\ run_pc' = "returned"
    /\ UNCHANGED <<outsideRun, discovered, course, scan, outcomes, processed, run_result,
                   course_log>>

NextRun ==
    \/ RUN_Start
    \/ RUN_Course
    \/ RUN_Scan
    \/ RUN_Done
    \/ RUN_Except
    \/ RUN_Finally

SpecRun == InitRun /\ [][NextRun]_vars

(***************************************************************************)
(* The local paths process_course builds                                   *)
(***************************************************************************)

\* self.base_download_dir: one opaque first element of every path; a path is
\* the sequence of the elements os.path.join puts together
BaseDir == <<"d", "o", "w", "n", "l", "o", "a", "d", "s">>

\* the tuple of safe_file_name.endswith((...)) before a download
known_extensions ==
    <<<<".", "p", "d", "f">>, <<".", "d", "o", "c">>, <<".", "d", "o", "c", "x">>, <<".", "p", "p", "t">>, <<".", "p", "p", "t", "x">>, <<".", "x", "l", "s">>, <<".", "x", "l", "s", "x">>, <<".", "t", "x", "t">>, <<".", "z", "i", "p">>>>

\* if not safe_file_name.endswith((...)): safe_file_name += '.pdf'
WithDefaultExtension(safe_file_name) ==
    IF \E k \in 1..Len(known_extensions) : EndsWith(safe_file_name, known_extensions[k])
    THEN safe_file_name
    ELSE safe_file_name \o <<".", "p", "d", "f">>

\* safe_file_name as the three link scans compute it from a file name
SafeFileName(file_name) == WithDefaultExtension(_sanitize_filename(file_name))

UnsanitizedCourseDir(course_name) == <<BaseDir, course_name>>

\* course_dir = os.path.join(self.base_download_dir, safe_course_name)
course_dir(course_name) == <<BaseDir, _sanitize_filename(course_name)>>

\* the labels process_course passes as subfolder names
FixedLabels == {<<"H", "o", "m", "e", "p", "a", "g", "e", "_", "D", "i", "r", "e", "c", "t">>, <<"H", "o", "m", "e", "p", "a", "g", "e">>, <<"F", "i", "l", "e", "s">>}

\* names the portal may show for a course, and for a link, module or folder
CourseNames == {<<"A">>, <<".", ".">>, <<".", ".", "/", "A">>}

ContainerNames == {<<".", ".">>, <<"A", "/", "A">>, <<" ", ".", " ">>}

\* what a path is built from: course name, name of the link, module or
\* folder the item was found in, name of the item
PathInputs ==
    CourseNames \X ContainerNames
        \X (NameInputs \cup {<<"p", "i", "c", ".", "j", "p", "g">>, <<"A", ".", "P", "D", "F">>})

InitPaths ==
    /\ RunIdle
    /\ DedupIdle
    /\ TreeIdle
    /\ DownloadIdle
    /\ CoursesIdle
    /\ arg \in PathInputs
    /\ ret = <<>>
    /\ op = "none"

\* process_course: os.makedirs(course_dir)
PP_CourseDir ==
    /\ op = "none"
    /\ op' = "course_dir"
    /\ ret' = course_dir(arg[1])
    /\ UNCHANGED <<arg, outsidePure>>

\* _process_direct_links(course_dir, "Homepage_Direct"): the subfolder, and
\* the file_path of a link in it
PP_Direct ==
    /\ op = "none"
    /\ LET subfolder_dir == Append(course_dir(arg[1]), <<"H", "o", "m", "e", "p", "a", "g", "e", "_", "D", "i", "r", "e", "c", "t">>)
       IN  \/ op' = "direct_dir" /\ ret' = subfolder_dir
           \/ op' = "direct_file"
              /\ ret' = Append(subfolder_dir, SafeFileName(Strip(arg[3], Whitespace)))
    /\ UNCHANGED <<arg, outsidePure>>

\* _process_clickable_links(course_dir, "Homepage", ...): the subfolder, the
\* directory of a followed link, and the file_path of a download link or
\* of a download button found on the link's page
PP_Clickable ==
    /\ op = "none"
    /\ LET subfolder_dir == Append(course_dir(arg[1]), <<"H", "o", "m", "e", "p", "a", "g", "e">>)
           link_dir == Append(subfolder_dir, _sanitize_filename(arg[2]))
       IN  \/ op' = "clickable_dir" /\ ret' = subfolder_dir
           \/ op' = "link_dir" /\ ret' = link_dir
           \/ op' = "link_file"
              /\ ret' = Append(link_dir, SafeFileName(Strip(arg[3], Whitespace)))
           \/ op' = "button_file" /\ ret' = Append(link_dir, SafeFileName(arg[3]))
    /\ UNCHANGED <<arg, outsidePure>>

\* _process_course_modules: the directory of a module and the file_path of
\* a link of one of its items
PP_Module ==
    /\ op = "none"
    /\ LET module_dir == Append(course_dir(arg[1]), _sanitize_filename(Strip(arg[2], Whitespace)))
       IN  \/ op' = "module_dir" /\ ret' = module_dir
           \/ op' = "module_file"
              /\ ret' = Append(module_dir, SafeFileName(Strip(arg[3], Whitespace)))
    /\ UNCHANGED <<arg, outsidePure>>

\* _process_course_files_section and _process_folder: the Files directory,
\* the directory of a subfolder and the file_path of a file row
PP_Files ==
    /\ op = "none"
    /\ LET files_dir == Append(course_dir(arg[1]), <<"F", "i", "l", "e", "s">>)
           subfolder_path == Join(files_dir, arg[2])
       IN  \/ op' = "files_dir" /\ ret' = files_dir
           \/ op' = "folder_dir" /\ ret' = subfolder_path
           \/ op' = "folder_file" /\ ret' = Join(subfolder_path, arg[3])
           \/ op' = "root_file" /\ ret' = Join(files_dir, arg[3])
    /\ UNCHANGED <<arg, outsidePure>>

NextPaths ==
    \/ PP_CourseDir
    \/ PP_Direct
    \/ PP_Clickable
    \/ PP_Module
    \/ PP_Files

SpecPaths == InitPaths /\ [][NextPaths]_vars

(***************************************************************************)
(* _process_folder with failing items                                      *)
(***************************************************************************)

FailEvent(f, p, h) == [Event("item_failed", f, p) EXCEPT !.row = h.row, !.hpage = h.page]

\* a folder row whose name cannot be read (find_element raises) or whose
\* click raises: the except clause of the subfolder loop logs it and the
\* loop goes on; the click comes after os.makedirs
PF_SubfolderRowFails ==
    /\ stack # <<>>
    /\ Top.phase = "subfolders"
    /\ Top.pos <= Len(Top.iter)
    /\ LET h == Top.iter[Top.pos]
           row == Listing[Top.folder][h.row]
           read == ReadEvent(Top.folder, page, h)
           made == PathEvent("mkdir", Top.folder, page, Join(Top.dir, row.name))
       IN  /\ ~Stale(h, page)
           /\ row.kind = "folder"
           /\ stack' = SetTop([Top EXCEPT !.pos = @ + 1, !.subfolder_count = @ + 1])
           /\ \E click_raises \in BOOLEAN :
                  log' = IF click_raises
                         THEN log \o <<read, made, FailEvent(Top.folder, page, h)>>
                         ELSE log \o <<read, FailEvent(Top.folder, page, h)>>
    /\ UNCHANGED <<outsideFolders, tree, page, timeouts>>

\* self.driver.get(folder_url) raises in a call: nothing in _process_folder
\* catches it; in a recursive call it reaches the except clause of the
\* caller's subfolder loop, which goes on to its next row without having
\* navigated back
PF_EnterRaises ==
    /\ stack # <<>>
    /\ Top.phase = "enter"
    /\ IF Len(stack) = 1
       THEN /\ stack' = <<>>
            /\ log' = Append(log, Event("raised", Top.folder, page))
       ELSE LET caller == stack[Len(stack) - 1]
            IN  /\ stack' = [Pop EXCEPT ![Len(stack) - 1] =
                                 [caller EXCEPT !.phase = "subfolders", !.pos = @ + 1]]
                /\ log' = log \o << Event("raised", Top.folder, page),
                                    FailEvent(caller.folder, page, caller.iter[caller.pos]) >>
    /\ UNCHANGED <<outsideFolders, tree, page, timeouts>>

\* a file row whose name or link cannot be read: the except clause of the
\* file loop logs it and the loop goes on
PF_FileRowFails ==
    /\ stack # <<>>
    /\ Top.phase = "files"
    /\ Top.pos <= Len(Top.iter)
    /\ LET h == Top.iter[Top.pos]
           row == Listing[Top.folder][h.row]
       IN  /\ ~Stale(h, page)
           /\ row.kind = "file"
           /\ stack' = SetTop([Top EXCEPT !.pos = @ + 1, !.file_count = @ + 1])
           /\ log' = log \o <<ReadEvent(Top.folder, page, h), FailEvent(Top.folder, page, h)>>
    /\ UNCHANGED <<outsideFolders, tree, page, timeouts>>

NextFolderFaults ==
    \/ NextFolders
    \/ PF_SubfolderRowFails
    \/ PF_EnterRaises
    \/ PF_FileRowFails

SpecFolderFaults == InitFolders /\ [][NextFolderFaults]_vars

(***************************************************************************)
(* _process_folder when a click leaves the URL as it was                   *)
(***************************************************************************)

\* deepest call stack the model follows
MaxDepth == 5

\* folder_name_element.click() has not changed driver.current_url when it is
\* read: subfolder_url is the URL of the folder in hand, and the recursive
\* call lists that folder again, with the subfolder's directory as its
\* current_dir
PF_ClickStays ==
    /\ stack # <<>>
    /\ Len(stack) < MaxDepth
    /\ Top.phase = "subfolders"
    /\ Top.pos <= Len(Top.iter)
    /\ LET h == Top.iter[Top.pos]
           row == Listing[Top.folder][h.row]
           subfolder_path == Join(Top.dir, row.name)
       IN  /\ ~Stale(h, page)
           /\ row.kind = "folder"
           /\ stack' = Append(SetTop([Top EXCEPT !.phase = "back",
                                                  !.subfolder_count = @ + 1]),
                              NewFrame(Top.folder, subfolder_path))
           /\ log' = log \o << ReadEvent(Top.folder, page, h),
                               PathEvent("mkdir", Top.folder, page, subfolder_path),
                               PathEvent("descend", Top.folder, page, subfolder_path) >>
    /\ UNCHANGED <<outsideFolders, tree, page, timeouts>>

NextFolderUrls ==
    \/ NextFolders
    \/ PF_ClickStays

SpecFolderUrls == InitFolders /\ [][NextFolderUrls]_vars

(***************************************************************************)
(* One remote file met by the three scans of process_course                *)
(***************************************************************************)

\* the course and the module the file is linked from
OneCourse == <<"M", "a", "t", "h">>

OneModule == <<"W", "e", "e", "k", " ", "1">>

\* file_path as each scan builds it for the file
PathOnScan(name, file_name) ==
    CASE name = "homepage" ->
             Append(Append(course_dir(OneCourse), <<"H", "o", "m", "e", "p", "a", "g", "e", "_", "D", "i", "r", "e", "c", "t">>),
                    SafeFileName(Strip(file_name, Whitespace)))
      [] name = "modules" ->
             Append(Append(course_dir(OneCourse), _sanitize_filename(Strip(OneModule, Whitespace))),
                    SafeFileName(Strip(file_name, Whitespace)))
      [] OTHER ->
             Join(Append(course_dir(OneCourse), <<"F", "i", "l", "e", "s">>), file_name)

ScanPaths(file_name) == {PathOnScan(Scans[k], file_name) : k \in 1..Len(Scans)}

InitDedup ==
    /\ RunIdle
    /\ PureIdle
    /\ DownloadIdle
    /\ CoursesIdle
    /\ TreeIdle
    /\ dd_pc = 1
    /\ dd_skip \in BOOLEAN
    /\ dd_name \in {<<"x", ".", "p", "d", "f">>, <<"n", "o", "t", "e", "s">>, <<"a", "/", "b", ".", "t", "x", "t">>}
    /\ linked_from \in (SUBSET {"homepage", "modules", "files"}) \ {{}}
    /\ disk \in [ScanPaths(dd_name) -> {Absent, EmptyFile, OldFile}]
    /\ transfers = <<>>

\* the scan in hand does not link to the file: on to the next scan
DD_NotLinked ==
    /\ dd_pc \in 1..Len(Scans)
    /\ Scans[dd_pc] \notin linked_from
    /\ dd_pc' = dd_pc + 1
    /\ UNCHANGED <<outsideDedup, dd_skip, dd_name, linked_from, disk, transfers>>

\* the scan in hand finds the link and calls _download_file(url, file_path):
\* it returns at the existence check, or fails before a request is sent, or
\* sends the request and saves the body, or fails after the request and
\* leaves the placeholder
DD_Download ==
    /\ dd_pc \in 1..Len(Scans)
    /\ Scans[dd_pc] \in linked_from
    /\ dd_pc' = dd_pc + 1
    /\ LET file_path == PathOnScan(Scans[dd_pc], dd_name)
           sent == Append(transfers, [scan |-> Scans[dd_pc], file_path |-> file_path])
       IN  IF SkipsExisting(dd_skip, disk[file_path])
           THEN UNCHANGED <<disk, transfers>>
           ELSE \E outcome \in {"no_request", "saved", "failed"} :
                    CASE outcome = "no_request" ->
                             /\ disk' = [disk EXCEPT ![file_path] = EmptyFile]
                             /\ UNCHANGED transfers
                      [] outcome = "saved" ->
                             /\ disk' = [disk EXCEPT ![file_path] = [size |-> MaxBody, src |-> 1]]
                             /\ transfers' = sent
                      [] OTHER ->
                             /\ disk' = [disk EXCEPT ![file_path] = EmptyFile]
                             /\ transfers' = sent
    /\ UNCHANGED <<outsideDedup, dd_skip, dd_name, linked_from>>

NextDedup ==
    \/ DD_NotLinked
    \/ DD_Download

SpecDedup == InitDedup /\ [][NextDedup]_vars

(***************************************************************************)
(* Properties of the download chain                                        *)
(***************************************************************************)

\* a call of _download_file is running or has just returned
InCall == pc \notin {"idle", "loop", "done"}

Last(s) == s[Len(s)]

\* C1: a call made while skip_existing is true and a file of size > 0 is at
\* file_path returns True without navigating the browser, without any
\* request on the transfer session and without touching the file.
C1_SkipTouchesNothing ==
    (InCall /\ skip_existing /\ pre.size > 0) =>
        /\ pc \in {"check", "returned"}
        /\ pc = "returned" => result = "true"
        /\ navs = 0
        /\ reqs = 0
        /\ writes = 0
        /\ trace = <<>>
        /\ fs[cur.file_path] = pre

C1_Witness ==
    /\ pc = "returned"
    /\ skip_existing
    /\ pre.size > 0
    /\ result = "true"
    /\ fs[cur.file_path] = pre

\* C2: over two runs with skip_existing true, every row whose download the
\* first run tried and whose local path the first run left zero-length is
\* navigated to again by the second run, and the second run issues no
\* transfer for a row whose local path the first run left with content.
C2_ResumeAndIdempotence ==
    (pc = "done" /\ skip_existing) =>
        \A i \in Items :
            /\ (i \in called1 /\ fsEnd1[LocalPath(names[i])].size = 0) => i \in nav2
            /\ fsEnd1[LocalPath(names[i])].size > 0 => i \notin req2

\* C3: whenever _download_file returns False, whatever made it fail, a
\* zero-length file is at file_path (stated here for the calls in which
\* writing the placeholder did not itself fail).
C3_PlaceholderOnEveryFailure ==
    (pc = "returned" /\ result = "false" /\ "placeholder" \notin faults) =>
        fs[cur.file_path].size = 0

\* C4: _download_file never raises to its caller: whatever fails
\* (navigation, element lookup, transfer, writing the file, writing the
\* placeholder), the call ends by returning True or False.
C4_DownloadNeverRaises ==
    /\ result # "raised"
    /\ pc = "returned" => result \in {"true", "false"}
    /\ (InCall /\ faults # {}) => pc \in {"handler", "returned"}

C4_Witness ==
    /\ pc = "returned"
    /\ result = "false"
    /\ {"write", "placeholder"} \subseteq faults

\* the strategies in the order the chain may try them
StrategyOrders ==
    { <<>>,
      <<"primary">>,
      <<"primary", "button_transfer">>,
      <<"primary", "alternate">>,
      <<"primary", "alternate", "button_transfer">>,
      <<"primary", "alternate", "direct">> }

Tried(what) == \E k \in 1..Len(trace) : trace[k] = what

\* the primary control first, the alternate signatures only when the
\* primary wait found nothing, the direct transfer against file_url only
\* when no control was found at all, and nothing after a success
StrategyOrder ==
    InCall =>
        /\ trace \in StrategyOrders
        /\ trace # <<>> => navs = 1
        /\ Tried("alternate") => button # "primary"
        /\ Tried("direct") => button = "none"
        /\ Tried("button_transfer") => button \in {"primary", "alternate"}
        /\ result = "true" => pc = "returned"
        /\ (result = "true" /\ navs > 0) =>
               (saved = "ok" /\ Last(trace) \in {"button_transfer", "direct"})

DirectAnswered == pc = "returned" /\ Tried("direct") /\ status # 0

\* C5 as stated: the order of the strategies, and the direct transfer
\* counts as success exactly when the HTTP status is a success status (2xx).
C5_Original ==
    /\ StrategyOrder
    /\ DirectAnswered => (result = "true" <=> status \in 200..299)

\* C5 amended: the order of the strategies, and a call that came to the
\* direct transfer returns True exactly when the status code is 200 and the
\* body was then saved without an exception.
C5_StrategyOrderAndDirectSuccess ==
    /\ StrategyOrder
    /\ (pc = "returned" /\ Tried("direct")) =>
           (result = "true" <=> (status = HTTP_OK /\ saved = "ok"))

C5_Witness ==
    /\ pc = "returned"
    /\ trace = <<"primary", "alternate", "direct">>
    /\ status = HTTP_OK
    /\ result = "true"
    /\ fs[cur.file_path].src = cur.item

\* the call in hand is for a row whose local path holds the complete body
\* another row of the same listing saved earlier in the same run
CollidesWithSaved ==
    /\ run = "first"
    /\ cur.item # 0
    /\ pre.src \notin {0, cur.item}
    /\ pre.size = MaxBody

\* C15: when two rows of one listing map to the same local path, what was
\* saved for the first is never overwritten or truncated by the call for the
\* second, with skip_existing set or not.
C15_FirstContentKept == CollidesWithSaved => fs[cur.file_path] = pre

\* the half that holds: with skip_existing set the second call returns at
\* the existence check
C15_KeptWhenSkipping == (CollidesWithSaved /\ skip_existing) => fs[cur.file_path] = pre

\* C23: every _download_file call that returns True leaves a file of size
\* greater than 0 at file_path, so that a zero-length file always marks a
\* failed attempt.
C23_TrueMeansNonEmpty ==
    (pc = "returned" /\ result = "true") => fs[cur.file_path].size > 0

\* the half that holds: a call that returns True leaves a file at file_path
C23_TrueLeavesAFile ==
    (pc = "returned" /\ result = "true") => Exists(fs[cur.file_path])

\* C24: a call of _download_file that returns False leaves a file that was
\* non-empty before the call as it was, with skip_existing set or not.
C24_FailureKeepsContent ==
    (pc = "returned" /\ result = "false" /\ pre.size > 0) => fs[cur.file_path] = pre

\* the half that holds: with skip_existing set, a call that finds a
\* non-empty file returns True at the existence check and writes nothing
C24_SkippingKeepsContent ==
    (pc = "returned" /\ skip_existing /\ pre.size > 0) =>
        result = "true" /\ fs[cur.file_path] = pre /\ writes = 0

(***************************************************************************)
(* Properties of course discovery                                          *)
(***************************************************************************)

Called(s) == \E k \in 1..Len(calls) : calls[k] = s

ThreeFromTable ==
    << Course(<<"1", "0", "1">>, <<"M", "a", "t", "h">>, Url101),
       Course(<<"1", "0", "2">>, <<"B", "i", "o">>, Url102),
       Course(<<"1", "0", "3">>, <<"C", "h", "e", "m">>, Url103) >>

\* C6: get_courses tries the dashboard cards, then the table, then the
\* list view; it returns the list of the first strategy that gave a
\* non-empty one and invokes no later strategy; a dashboard with no course
\* and a table with three return those three in table order.
C6_FirstNonEmptyWins ==
    (gc_pc = "returned" /\ calls # <<>>) =>
        /\ calls \in {<<"dashboard">>, <<"dashboard", "table">>,
                      <<"dashboard", "table", "list">>}
        /\ found["dashboard"] # <<>> =>
               (calls = <<"dashboard">> /\ returned = found["dashboard"])
        /\ (found["dashboard"] = <<>> /\ found["table"] # <<>>) =>
               (calls = <<"dashboard", "table">> /\ returned = found["table"])
        /\ (found["dashboard"] = <<>> /\ found["table"] = <<>>) =>
               (calls = <<"dashboard", "table", "list">> /\ returned = found["list"])
        /\ (/\ found["dashboard"] = <<>>
            /\ course_rows = <<Header, Math, Bio, Chem>>
            /\ "table" \notin gc_failed) => returned = ThreeFromTable

C6_Witness ==
    /\ gc_pc = "returned"
    /\ course_cards = <<About, Broken("href")>>
    /\ gc_failed = {}
    /\ calls = <<"dashboard", "table">>
    /\ returned = ThreeFromTable

\* C7: get_courses never raises; a strategy that fails internally returns
\* an empty list and the next strategy is tried; a failure in get_courses
\* itself yields an empty list.
C7_DiscoveryNeverRaises ==
    /\ gc_result # "raised"
    /\ gc_pc = "returned" =>
           /\ gc_result = "list"
           /\ "begin" \in gc_failed => (returned = <<>> /\ calls = <<>>)
           /\ "dashboard" \in gc_failed => (found["dashboard"] = <<>> /\ Called("table"))
           /\ "table" \in gc_failed => (found["table"] = <<>> /\ Called("list"))
           /\ "list" \in gc_failed => returned = <<>>

C7_Witness ==
    /\ gc_pc = "returned"
    /\ gc_failed = {"dashboard", "table", "list"}
    /\ calls = <<"dashboard", "table", "list">>
    /\ gc_result = "list"
    /\ returned = <<>>

\* a non-empty string of digits
OnlyDigits(s) == s # <<>> /\ \A i \in 1..Len(s) : s[i] \in Digits

\* C26: every course get_courses returns, whichever strategy produced it,
\* has a non-empty id of digits only, the URL segment after /courses/.
C26_NumericIds ==
    gc_pc = "returned" =>
        \A k \in 1..Len(returned) :
            /\ OnlyDigits(returned[k].id)
            /\ returned[k].id = CourseIdOf(returned[k].url)

\* the half that holds: the id is always the segment after /courses/, and
\* the list view returns ids of digits only
C26_IdIsTheSegment ==
    gc_pc = "returned" =>
        /\ \A k \in 1..Len(returned) : returned[k].id = CourseIdOf(returned[k].url)
        /\ \A k \in 1..Len(found["list"]) : OnlyDigits(found["list"][k].id)

\* the same letter, in either case
SameLetter(a, b) ==
    \/ a = b
    \/ \E i \in 1..Len(LowerCase) : {a, b} = {LowerCase[i], UpperCase[i]}

\* shown is one of the navigational labels, whatever the case of its letters
IsNavigationLabel(shown) ==
    \E label \in NavigationLabels :
        /\ Len(shown) = Len(label)
        /\ \A i \in 1..Len(label) : SameLetter(shown[i], label[i])

\* an anchor the list view would keep if no earlier one had its id
Eligible(link) ==
    /\ link.has_href
    /\ Contains(link.href, CoursesMarker)
    /\ ~Contains(link.href, <<"/", "c", "o", "u", "r", "s", "e", "s", "/", "a", "l", "l">>)
    /\ ~Contains(link.href, <<"/", "c", "o", "u", "r", "s", "e", "s", "/", "f", "a", "v", "o", "r", "i", "t", "e", "s">>)
    /\ ~Contains(link.href, <<"/", "c", "o", "u", "r", "s", "e", "s", "/", "s", "e", "a", "r", "c", "h">>)
    /\ OnlyDigits(CourseIdOf(link.href))
    /\ Strip(link.text, Whitespace) # <<>>
    /\ ~IsNavigationLabel(Strip(link.text, Whitespace))

\* C27: the list _get_courses_from_list_view returns has no two courses
\* with one id, no id that is not a number, no empty name and no
\* navigational label as name, whatever the case of its letters; of the
\* anchors with one id the first one in page order is kept.
C27_ListViewFilters ==
    (Called("list") /\ "list" \notin gc_failed /\ gc_pc = "returned") =>
        LET kept == found["list"]
        IN  /\ \A j, k \in 1..Len(kept) : kept[j].id = kept[k].id => j = k
            /\ \A k \in 1..Len(kept) :
                   /\ OnlyDigits(kept[k].id)
                   /\ kept[k].name # <<>>
                   /\ ~IsNavigationLabel(kept[k].name)
                   /\ \E n \in 1..Len(course_links) :
                          /\ Eligible(course_links[n])
                          /\ kept[k] = Course(CourseIdOf(course_links[n].href),
                                              Strip(course_links[n].text, Whitespace),
                                              course_links[n].href)
                          /\ \A m \in 1..(n - 1) :
                                 Eligible(course_links[m]) =>
                                     CourseIdOf(course_links[m].href) # kept[k].id
            /\ \A n \in 1..Len(course_links) :
                   Eligible(course_links[n]) =>
                       \E k \in 1..Len(kept) : kept[k].id = CourseIdOf(course_links[n].href)

C27_Witness ==
    /\ gc_pc = "returned"
    /\ course_links = <<AllCoursesLink, Math, MathAgain, Bio>>
    /\ "list" \notin gc_failed
    /\ returned = << Course(<<"1", "0", "1">>, <<"M", "a", "t", "h">>, Url101), Course(<<"1", "0", "2">>, <<"B", "i", "o">>, Url102) >>

(***************************************************************************)
(* Properties of the folder traversal                                      *)
(***************************************************************************)

Happened(e, f) == \E k \in 1..Len(log) : log[k].e = e /\ log[k].f = f

\* the recursive call for folder f has ended before step k of the log
EndedBefore(f, k) ==
    \E j \in 1..(k - 1) : log[j].f = f /\ log[j].e \in {"return", "timeout"}

SubfoldersOf(f) ==
    {Listing[f][r].child : r \in {r \in 1..Len(Listing[f]) : Listing[f][r].kind = "folder"}}

\* once a file of a folder has been handed to _download_file, the call for
\* that folder descends into no further subfolder
NoDescentAfterDownload ==
    \A j, k \in 1..Len(log) :
        (log[j].e = "download" /\ log[k].e = "descend" /\ log[j].f = log[k].f) => k < j

\* C12: within one call of _process_folder no file directly in the folder is
\* passed to _download_file until every subfolder of the folder has been
\* fully processed by its recursive call.
C12_SubfoldersBeforeFiles ==
    \A k \in 1..Len(log) :
        log[k].e = "download" =>
            \A sub \in SubfoldersOf(log[k].f) : EndedBefore(sub, k)

IsDownload(ev) == ev.e = "download"

\* the local paths handed to _download_file, in call order
Downloads ==
    LET calls_made == SelectSeq(log, IsDownload)
    IN  [k \in 1..Len(calls_made) |-> calls_made[k].path]

\* the counts folder f's call logged when it returned
Counted(f, subfolder_count, file_count) ==
    \E k \in 1..Len(log) :
        /\ log[k].e = "return"
        /\ log[k].f = f
        /\ log[k].subfolder_count = subfolder_count
        /\ log[k].file_count = file_count

TraversalOver == stack = <<>>

\* C13: for the tree of root holding subfolder A (holding x.pdf) and file
\* y.doc, whose listings all render, _process_folder on root hands exactly
\* root/A/x.pdf and root/y.doc to the download chain, counts one subfolder
\* and one file at root and one file inside A.
C13_TwoLevelTree ==
    (TraversalOver /\ tree[1] \in {"two_level", "file_first"} /\ timeouts = 0) =>
        /\ Downloads = << RootDir \o << <<"A">>, <<"x", ".", "p", "d", "f">> >>, RootDir \o << <<"y", ".", "d", "o", "c">> >> >>
        /\ Counted(0, 1, 1)
        /\ Counted(1, 0, 1)

C13_Witness ==
    /\ TraversalOver
    /\ tree[1] = "two_level"
    /\ timeouts = 0
    /\ Downloads = << RootDir \o << <<"A">>, <<"x", ".", "p", "d", "f">> >>, RootDir \o << <<"y", ".", "d", "o", "c">> >> >>
    /\ Counted(0, 1, 1)

\* C17: no element handle obtained before a navigation is read after it:
\* every row the loops of _process_folder read was obtained from the page
\* the browser shows at the time of the read.
C17_NoStaleRead ==
    \A k \in 1..Len(log) : log[k].e = "read" => log[k].hpage = log[k].page

\* the folder whose listing shows folder f as a row, and that row
ParentOf(f) ==
    CHOOSE p \in DOMAIN Listing :
        \E r \in 1..Len(Listing[p]) : Listing[p][r] = Folder(Listing[p][r].name, f)

RowOf(f) ==
    CHOOSE r \in 1..Len(Listing[ParentOf(f)]) :
        Listing[ParentOf(f)][r] = Folder(Listing[ParentOf(f)][r].name, f)

\* the local directory that mirrors the remote position of folder f
RECURSIVE MirrorDir(_)
MirrorDir(f) ==
    IF f = 0 THEN RootDir
    ELSE Join(MirrorDir(ParentOf(f)), Listing[ParentOf(f)][RowOf(f)].name)

\* _process_folder was called for folder f and its listing rendered
Visited(f) == Happened("listing", f)

FirstStep(e, f) == CHOOSE k \in 1..Len(log) : log[k].e = e /\ log[k].f = f /\ \A j \in 1..(k - 1) : ~(log[j].e = e /\ log[j].f = f)

DownloadsOf(f, path) ==
    {k \in 1..Len(log) : log[k].e = "download" /\ log[k].f = f /\ log[k].path = path}

\* C18: when every listing renders, the finished traversal has visited every
\* subfolder of every visited folder, siblings in listing order, and has
\* called _download_file exactly once for every file row of every visited
\* folder, at the path current_dir/sanitize(name) mirroring the remote
\* position.
C18_EveryRowProcessed ==
    (TraversalOver /\ timeouts = 0) =>
        \A f \in DOMAIN Listing :
            Visited(f) =>
                \A r \in 1..Len(Listing[f]) :
                    LET row == Listing[f][r]
                    IN  IF row.kind = "folder"
                        THEN /\ Visited(row.child)
                             /\ \A q \in 1..(r - 1) :
                                    Listing[f][q].kind = "folder" =>
                                        FirstStep("listing", Listing[f][q].child)
                                            < FirstStep("listing", row.child)
                        ELSE Cardinality(DownloadsOf(f, Join(MirrorDir(f), row.name))) = 1

\* the half that holds: whatever is handed to _download_file is a file row
\* of the folder in hand, at the mirroring path, and at most once
C18_DownloadsMirror ==
    /\ \A k \in 1..Len(log) :
           log[k].e = "download" =>
               \E r \in 1..Len(Listing[log[k].f]) :
                   /\ Listing[log[k].f][r].kind = "file"
                   /\ log[k].path = Join(MirrorDir(log[k].f), Listing[log[k].f][r].name)
    /\ \A j, k \in 1..Len(log) :
           (log[j].e = "download" /\ log[k].e = "download" /\ log[j].path = log[k].path) => j = k

IsBack(ev) == ev.e \in {"relisted", "back_timeout"}

\* the last navigation back to folder f before step k of the log, 0 if none
LastBack(f, k) ==
    LET backs == {j \in 1..(k - 1) : IsBack(log[j]) /\ log[j].f = f}
    IN  IF backs = {} THEN 0 ELSE CHOOSE j \in backs : \A i \in backs : i <= j

\* C19: after a recursive call has returned and the browser is back on the
\* parent folder, the parent's loops go on only once the listing marker was
\* confirmed and the rows were read again from the new page: every row read
\* after a navigation back follows a confirmed marker and uses a handle of
\* the re-read list.
C19_ResumesFromRereadListing ==
    \A k \in 1..Len(log) :
        (log[k].e = "read" /\ LastBack(log[k].f, k) # 0) =>
            /\ log[LastBack(log[k].f, k)].e = "relisted"
            /\ log[k].hpage >= log[LastBack(log[k].f, k)].page

\* the half that holds: after a navigation back whose marker did not appear,
\* the call makes no directory, descends nowhere and downloads nothing
C19_NothingDoneAfterBackTimeout ==
    \A k \in 1..Len(log) :
        (LastBack(log[k].f, k) # 0 /\ log[LastBack(log[k].f, k)].e = "back_timeout") =>
            log[k].e \in {"read", "return", "relisted", "back_timeout"}

Handled(f, r) ==
    \E k \in 1..Len(log) :
        /\ log[k].f = f
        /\ \/ log[k].e \in {"descend", "download"} /\ log[k].path = Join(MirrorDir(f), Listing[f][r].name)
           \/ log[k].e = "item_failed" /\ log[k].row = r

\* C21: a failure while one item of a listing is handled does not stop the
\* traversal: in the two-level tree, whose listings all render, every row
\* of every visited folder is handled although other rows failed.
C21_OtherItemsStillProcessed ==
    (TraversalOver /\ tree[1] \in {"two_level", "file_first"} /\ timeouts = 0
        /\ ~Happened("raised", 0)) =>
        \A f \in DOMAIN Listing :
            Visited(f) => \A r \in 1..Len(Listing[f]) : Handled(f, r)

\* the half that holds: what an item raises inside the loops never leaves
\* the call; only driver.get of the outermost call can end the traversal
\* with an exception
C21_ItemFailuresStayInside ==
    \A k \in 1..Len(log) :
        log[k].e = "item_failed" =>
            \/ \E d \in 1..Len(stack) : stack[d].folder = log[k].f
            \/ \E j \in (k + 1)..Len(log) : log[j].e = "return" /\ log[j].f = log[k].f

\* number of folders on the longest chain from folder f down
RECURSIVE RemoteDepth(_)
RemoteDepth(f) ==
    LET below == {RemoteDepth(sub) : sub \in SubfoldersOf(f)}
    IN  1 + (IF below = {} THEN 0 ELSE CHOOSE d \in below : \A e \in below : e <= d)

\* C25: the recursion of _process_folder is never deeper than the remote
\* tree, also when a click on a subfolder row leaves the URL unchanged.
C25_DepthBoundedByTree == Len(stack) <= RemoteDepth(0)

(***************************************************************************)
(* Properties of run                                                       *)
(***************************************************************************)

RunOver == run_pc = "returned"

\* C14: an exception raised while one course is processed aborts only that
\* course: once run has returned, process_course has been called for every
\* course of the discovered list, in order.
C14_LaterCoursesProcessed ==
    (RunOver /\ discovered > 0) => processed = [k \in 1..discovered |-> k]

\* what the code does instead: the first exception that leaves
\* process_course ends the loop, run returns False and the browser is closed
C14_FirstExceptionEndsRun ==
    (RunOver /\ discovered > 0) =>
        \/ processed = [k \in 1..discovered |-> k] /\ run_result \in {"true", "false"}
        \/ /\ Len(processed) < discovered
           /\ run_result = "false"
           /\ browser = "closed"
           /\ (outcomes = <<>> \/ ProcessCourseRaises(outcomes[Len(outcomes)]))

(***************************************************************************)
(* Properties of the local paths                                           *)
(***************************************************************************)

\* a path element that names an entry of the directory it is joined to
SafeSegment(s) ==
    /\ s # <<>>
    /\ s # <<".">>
    /\ s # <<".", ".">>
    /\ \A k \in 1..Len(s) : s[k] \notin {"/", "\\"}

\* a fixed label, or what _sanitize_filename returns for one of the names
\* the path was built from, with or without the default extension
FromLabelOrSanitizer(s, inputs) ==
    \/ s \in FixedLabels
    \/ \E k \in 1..Len(inputs) :
           \E n \in {inputs[k], Strip(inputs[k], Whitespace)} :
               s \in {_sanitize_filename(n), _sanitize_filename(n) \o <<".", "p", "d", "f">>}

FileRoutes == {"direct_file", "link_file", "button_file", "module_file", "folder_file", "root_file"}

\* the local name the rule gives a sanitized name: unchanged when it ends in
\* an extension of the classifier's list, with ".pdf" appended otherwise
NameByClassifierList(safe_file_name) ==
    IF \E k \in 1..Len(file_extensions) : EndsWith(safe_file_name, file_extensions[k])
    THEN safe_file_name
    ELSE safe_file_name \o <<".", "p", "d", "f">>

\* C22: on every discovery path the local file name is the sanitized name
\* unchanged when it ends in an extension of the classifier's allow-list,
\* and the sanitized name with ".pdf" appended otherwise.
C22_DefaultExtensionRule ==
    op \in FileRoutes =>
        \E n \in {arg[3], Strip(arg[3], Whitespace)} :
            Last(ret) = NameByClassifierList(_sanitize_filename(n))

\* what holds: the link scans leave a name alone exactly when it ends in
\* one of the nine extensions of their own list, and the files section
\* never appends anything
C22_WhatTheCodeDoes ==
    /\ op \in {"direct_file", "link_file", "button_file", "module_file"} =>
           \E n \in {arg[3], Strip(arg[3], Whitespace)} :
               LET safe == _sanitize_filename(n)
               IN  Last(ret) = IF \E k \in 1..Len(known_extensions) : EndsWith(safe, known_extensions[k])
                               THEN safe ELSE safe \o <<".", "p", "d", "f">>
    /\ op \in {"folder_file", "root_file"} =>
           Last(ret) = _sanitize_filename(Strip(arg[3], Whitespace))

\* the scan that process_course runs after a scan, "none" after the last
ScanAfter(name) ==
    CASE name = "homepage" -> "modules"
      [] name = "modules" -> "files"
      [] OTHER -> "none"

IsScan(ev) == ev.what \in {"homepage", "modules", "files"}

\* step k of course_log is a scan that came back with no file found
FoundNothing(k) == IsScan(course_log[k]) /\ course_log[k].outcome \in {"nothing", "swallowed"}

\* C28: for every course process_course runs the homepage scan, then the
\* module scan, then the files-section scan, each following the one before
\* whatever that one found, and logs the "no files found" warning exactly
\* when all three reported that nothing was found.
C28_ThreeScansInOrder ==
    \A k \in 1..Len(course_log) :
        LET ev == course_log[k]
            first_of_course == k = 1 \/ course_log[k - 1].course # ev.course
        IN  /\ ev.what = "homepage" <=> first_of_course
            /\ (IsScan(ev) /\ ~first_of_course) =>
                   /\ IsScan(course_log[k - 1])
                   /\ course_log[k - 1].outcome # "raised"
                   /\ ev.what = ScanAfter(course_log[k - 1].what)
            /\ (IsScan(ev) /\ ev.outcome # "raised" /\ ScanAfter(ev.what) # "none") =>
                   \/ k = Len(course_log) /\ run_pc = "scan" /\ course = ev.course
                   \/ k < Len(course_log)
                      /\ course_log[k + 1].course = ev.course
                      /\ course_log[k + 1].what = ScanAfter(ev.what)
            /\ ev.what = "warning" =>
                   /\ k > 3
                   /\ course_log[k - 1].what = "files"
                   /\ \A j \in (k - 3)..(k - 1) : FoundNothing(j)
            /\ (ev.what = "files" /\ k > 2 /\ \A j \in (k - 2)..k : FoundNothing(j)) =>
                   /\ k < Len(course_log)
                   /\ course_log[k + 1] = ScanEvent(ev.course, "warning", "none")

C28_Witness ==
    /\ run_pc = "returned"
    /\ run_result = "true"
    /\ course_log = << ScanEvent(1, "homepage", "nothing"),
                       ScanEvent(1, "modules", "swallowed"),
                       ScanEvent(1, "files", "nothing"),
                       ScanEvent(1, "warning", "none"),
                       ScanEvent(2, "homepage", "found"),
                       ScanEvent(2, "modules", "nothing"),
                       ScanEvent(2, "files", "found") >>

(***************************************************************************)
(* Properties of the scans of one remote file                              *)
(***************************************************************************)

\* C29: within one run over one course a remote file that is linked from
\* the homepage or a module and also listed in the files section is
\* transferred at most once.
C29_TransferredAtMostOnce == Len(transfers) <= 1

\* what holds: no scan transfers the file twice, and the scans that do
\* transfer it write to different paths
C29_AtMostOncePerScan ==
    \A j, k \in 1..Len(transfers) :
        (transfers[j].scan = transfers[k].scan \/ transfers[j].file_path = transfers[k].file_path)
            => j = k

\* C30: on every way out of run on which a browser was created the browser
\* has been closed when run returns, and when login fails or no course is
\* discovered run returns False without having processed any course.
C30_BrowserClosedOnEveryExit ==
    /\ run_pc \in {"course", "scan"} => browser = "open"
    /\ RunOver =>
           /\ browser \in {"none", "closed"}
           /\ browser = "none" => (discovered = 0 /\ run_result = "false")
           /\ discovered = 0 => (run_result = "false" /\ processed = <<>> /\ course_log = <<>>)
           /\ run_result \in {"true", "false"}

C30_Witness ==
    /\ RunOver
    /\ discovered = 0
    /\ browser = "closed"
    /\ run_result = "false"
    /\ processed = <<>>

(***************************************************************************)
(* Properties of the sanitizer                                             *)
(***************************************************************************)

UnsafeChars == {"<", ">", ":", "\"", "/", "\\", "|", "?", "*"}

\* out is a stretch of name in which every unsafe character has become one
\* underscore and nothing else has changed, and no unsafe character of
\* name lies outside the stretch; or name has no unsafe character and out
\* is the placeholder
UnsafeBecomeUnderscores(name, out) ==
    \/ /\ out = Unnamed
       /\ \A i \in 1..Len(name) : name[i] \notin UnsafeChars
    \/ \E lo \in 1..Len(name) :
           /\ lo + Len(out) - 1 <= Len(name)
           /\ \A k \in 1..Len(out) :
                  out[k] = IF name[lo + k - 1] \in UnsafeChars THEN "_" ELSE name[lo + k - 1]
           /\ \A i \in 1..Len(name) :
                  (i < lo \/ i > lo + Len(out) - 1) => name[i] \notin UnsafeChars

\* C10: for every input the sanitizer returns a non-empty string without
\* any unsafe character, in which every unsafe character of the input has
\* become exactly one underscore; sanitize("A/B:C*?.pdf") = "A_B_C__.pdf".
C10_SanitizerSafe ==
    op = "sanitized" =>
        /\ ret # <<>>
        /\ \A k \in 1..Len(ret) : ret[k] \notin UnsafeChars
        /\ UnsafeBecomeUnderscores(arg, ret)
        /\ arg = ExampleName => ret = <<"A", "_", "B", "_", "C", "_", "_", ".", "p", "d", "f">>

C10_Witness ==
    /\ op = "sanitized"
    /\ arg = ExampleName
    /\ ret = <<"A", "_", "B", "_", "C", "_", "_", ".", "p", "d", "f">>

AllIn(name, chars) == \A i \in 1..Len(name) : name[i] \in chars

Underscores(n) == [i \in 1..n |-> "_"]

\* C11 as stated: the sanitizer returns "unnamed" for the empty string and
\* for every input made only of unsafe characters.
C11_Original ==
    (op = "sanitized" /\ AllIn(arg, UnsafeChars)) => ret = Unnamed

\* C11 amended: the sanitizer returns "unnamed" for the empty string and for
\* every input made only of dots and spaces; an input made only of unsafe
\* characters comes back as one underscore per character.
C11_PlaceholderForBlankNames ==
    op = "sanitized" =>
        /\ AllIn(arg, {".", " "}) => ret = Unnamed
        /\ (arg # <<>> /\ AllIn(arg, UnsafeChars)) => ret = Underscores(Len(arg))

C11_Witness ==
    /\ op = "sanitized"
    /\ arg = <<".", " ", ".">>
    /\ ret = Unnamed

(***************************************************************************)
(* URL vocabulary of the classifier's claims                               *)
(***************************************************************************)

\* index of the first character of u that is in cs, Len(u) + 1 if none
FirstOf(u, cs) ==
    IF \E i \in 1..Len(u) : u[i] \in cs
    THEN CHOOSE i \in 1..Len(u) : u[i] \in cs /\ \A j \in 1..(i - 1) : u[j] \notin cs
    ELSE Len(u) + 1

\* the URL up to its query string or fragment
UrlPath(u) == SubSeq(u, 1, FirstOf(u, {"?", "#"}) - 1)

\* the query string, without its "?" and without any fragment
UrlQuery(u) ==
    LET noFrag == SubSeq(u, 1, FirstOf(u, {"#"}) - 1)
    IN  SubSeq(noFrag, FirstOf(noFrag, {"?"}) + 1, Len(noFrag))

PathEndsInAllowedExt(u) ==
    \E n \in 1..Len(file_extensions) : EndsWith(Lower(UrlPath(u)), file_extensions[n])

\* flag is one of the &-separated parameters of the query string
QueryHasFlag(u, flag) ==
    LET q == UrlQuery(u)
    IN  \E i \in 1..Len(q) :
            /\ MatchesAt(q, flag, i)
            /\ (i = 1 \/ q[i - 1] = "&")
            /\ (i + Len(flag) - 1 = Len(q) \/ q[i + Len(flag)] = "&")

HasDownloadMarker(u) ==
    \/ EndsWith(UrlPath(u), <<"/", "d", "o", "w", "n", "l", "o", "a", "d">>)
    \/ QueryHasFlag(u, <<"d", "o", "w", "n", "l", "o", "a", "d", "=", "1">>)
    \/ QueryHasFlag(u, <<"d", "o", "w", "n", "l", "o", "a", "d", "_", "f", "r", "d", "=", "1">>)

HasFilesSegment(u) == Contains(UrlPath(u) \o <<"/">>, <<"/", "f", "i", "l", "e", "s", "/">>)

\* C8: the classifier returns true for every URL whose path ends in an
\* allow-listed extension, with or without a query string and in any letter
\* case, and false for every URL with no allow-listed extension and no
\* download marker.
C8_ClassifierCorrectness ==
    op = "classified" =>
        /\ PathEndsInAllowedExt(arg) => ret = TRUE
        /\ (~PathEndsInAllowedExt(arg) /\ ~HasDownloadMarker(arg)) => ret = FALSE

\* C9: the classifier returns true for every URL whose path has a files
\* segment and that carries a download marker (a /download path suffix, or a
\* download=1 or download_frd=1 query flag at any position of the query
\* string); a marker alone, with no files segment and no allow-listed
\* extension, does not make a URL downloadable.
C9_DownloadMarkerRule ==
    op = "classified" =>
        /\ (HasFilesSegment(arg) /\ HasDownloadMarker(arg)) => ret = TRUE
        /\ (HasDownloadMarker(arg) /\ ~HasFilesSegment(arg) /\ ~PathEndsInAllowedExt(arg))
               => ret = FALSE

====
